---- MODULE Spec2Model ----
(***************************************************************************)
(* A model of the landmass navigation-mesh runtime.                        *)
(*                                                                         *)
(* Part 1 models NavigationMesh::validate (src/src/nav_mesh.rs).           *)
(* Part 2 models pathfinding::find_path                                    *)
(* (src/crates/landmass/src/pathfinding.rs) over a NavigationData.         *)
(* Part 3 models Path::find_next_point_in_straight_path (src/src/path.rs). *)
(* Part 4 models Agent::has_reached_target (src/src/agent.rs).             *)
(* Part 5 models query::sample_point and query::find_path                  *)
(* (src/crates/landmass/src/query.rs).                                     *)
(* Part 6 models an Archipelago over time: islands (island.rs) and agents  *)
(* that are added, changed and removed, the node types, and update.        *)
(* Part 7 models the systems of bevy_landmass                              *)
(* (src/crates/bevy_landmass/src/lib.rs) over the frames of an App: the    *)
(* agents and islands that exist (SpecExistence), the inputs and the cost  *)
(* overrides of one agent (SpecInputs), the nav mesh of one island         *)
(* (SpecIslandSync), and the systems that write the outputs back.          *)
(* SpecWalks runs the straight-path walk of Part 3 over a second corridor. *)
(*                                                                         *)
(* Conventions.  Sequences of the model are TLA+ sequences, but every      *)
(* index that the program computes (polygon_index, edge index i, vertex    *)
(* indices stored in polygons) keeps the 0-based value it has in the       *)
(* source; At(s, k) reads element k of a Vec.  A Vec3 is <<x, y, z>> of    *)
(* integers.  An Option is None == <<>> or Some(x) == <<x>>.               *)
(***************************************************************************)
EXTENDS Integers, Sequences, FiniteSets, Bags, TLC

VARIABLES
  mesh,         \* the NavigationMesh handed to validate
  result,       \* what validate returned
  nav_data,     \* the NavigationData searched in; the archipelago in Parts 5
                \* and 6; the Archipelago of each archipelago entity in Part 7
  request,      \* the arguments of find_path, or of the queries in Part 5;
                \* what was done last in Part 6; the world in Part 7
  path_result,  \* what pathfinding::find_path returned
  walk,         \* a path and the straight path being collected along it
  agent,        \* an agent with its next and target waypoints
  has_reached,  \* what Agent::has_reached_target returned
  query_result  \* what query::sample_point or query::find_path returned

vars ==
  <<mesh, result, nav_data, request, path_result, walk, agent, has_reached,
    query_result>>

(***************************************************************************)
(* Bounds of the model.                                                    *)
(***************************************************************************)
\* most polygons in a mesh of the general family
MaxPolys == 2
\* most vertices in the single polygon of the long-polygon family
MaxPolyLen == 5

(***************************************************************************)
(* Generic helpers.                                                        *)
(***************************************************************************)
None == <<>>
Some(x) == <<x>>
IsSome(o) == Len(o) = 1
Unwrap(o) == o[1]

At(s, k) == s[k + 1]
Indices(s) == 0 .. (Len(s) - 1)

SeqsUpTo(S, lo, hi) == UNION {[1 .. n -> S] : n \in lo .. hi}

Min2(a, b) == IF a <= b THEN a ELSE b
Max2(a, b) == IF a >= b THEN a ELSE b

\* glam Vec3::min / Vec3::max: componentwise.
Vec3Min(a, b) == <<Min2(a[1], b[1]), Min2(a[2], b[2]), Min2(a[3], b[3])>>
Vec3Max(a, b) == <<Max2(a[1], b[1]), Max2(a[2], b[2]), Max2(a[3], b[3])>>
Vec3Zero == <<0, 0, 0>>
\* Vec3::xz()
XZ(v) == <<v[1], v[3]>>

(***************************************************************************)
(* NavigationMesh::validate, nav_mesh.rs:47-195.                           *)
(***************************************************************************)

\* nav_mesh.rs:50-64.  `first().unwrap()` runs whenever mesh_bounds is None,
\* also right after the empty case stored (ZERO, ZERO): on an empty vertex
\* list it panics.
RECURSIVE FoldBounds(_, _, _)
FoldBounds(vertices, k, acc) ==
  IF k >= Len(vertices) THEN acc
  ELSE FoldBounds(vertices, k + 1,
                  <<Vec3Min(acc[1], At(vertices, k)),
                    Vec3Max(acc[2], At(vertices, k))>>)

ComputeMeshBounds(m) ==
  IF m.mesh_bounds = None
  THEN IF Len(m.vertices) = 0
       THEN [panic |-> TRUE, mesh_bounds |-> Some(<<Vec3Zero, Vec3Zero>>)]
       ELSE [panic |-> FALSE,
             mesh_bounds |->
               Some(FoldBounds(m.vertices, 1,
                               <<At(m.vertices, 0), At(m.vertices, 0)>>))]
  ELSE [panic |-> FALSE, mesh_bounds |-> m.mesh_bounds]

\* region bounds always taken from the mesh bounds
ComputeRegionBounds_IgnoresSupplied(m, mesh_bounds) == mesh_bounds

\* nav_mesh.rs:65-67
ComputeRegionBounds(m, mesh_bounds) ==
  IF m.region_bounds = None THEN mesh_bounds ELSE m.region_bounds

\* the edge kept in the direction it is read
NormalizedEdge_KeepsDirection(center_vertex, right_vertex) ==
  <<center_vertex, right_vertex>>

\* nav_mesh.rs:106-110: the edge as an unordered pair, smaller index first.
NormalizedEdge(center_vertex, right_vertex) ==
  IF center_vertex < right_vertex
  THEN <<center_vertex, right_vertex>>
  ELSE <<right_vertex, center_vertex>>

\* nav_mesh.rs:69-81, 117-119: a key that is absent is Disconnected.
StateOf(connectivity_set, edge) ==
  IF edge \in DOMAIN connectivity_set
  THEN connectivity_set[edge]
  ELSE [tag |-> "Disconnected"]

\* the second polygon recorded on both sides of a connected edge
AdvanceState_SamePolygonTwice(state, polygon_index, i) ==
  IF state.tag = "Disconnected"
  THEN [tag |-> "Boundary", polygon |-> polygon_index, edge |-> i]
  ELSE [tag |-> "Connected",
        polygon_1 |-> polygon_index, edge_1 |-> state.edge,
        polygon_2 |-> polygon_index, edge_2 |-> i]

\* nav_mesh.rs:120-136: Disconnected -> Boundary -> Connected.
AdvanceState(state, polygon_index, i) ==
  IF state.tag = "Disconnected"
  THEN [tag |-> "Boundary", polygon |-> polygon_index, edge |-> i]
  ELSE [tag |-> "Connected",
        polygon_1 |-> state.polygon, edge_1 |-> state.edge,
        polygon_2 |-> polygon_index, edge_2 |-> i]

PutEdge(connectivity_set, edge, state) ==
  [e \in DOMAIN connectivity_set \cup {edge} |->
     IF e = edge THEN state ELSE connectivity_set[e]]

\* nav_mesh.rs:144-153: the 2D cross product of right_edge with left_edge.
VertexCross(left_vertex, center_vertex, right_vertex) ==
  LET left_edge == <<left_vertex[1] - center_vertex[1],
                     left_vertex[2] - center_vertex[2]>>
      right_edge == <<right_vertex[1] - center_vertex[1],
                      right_vertex[2] - center_vertex[2]>>
  IN right_edge[1] * left_edge[2] - right_edge[2] * left_edge[1]

\* the comparison turned around: left turns rejected
IsConcaveVertex_SignFlipped(left_vertex, center_vertex, right_vertex) ==
  VertexCross(left_vertex, center_vertex, right_vertex) > 0

\* a straight vertex rejected as well
IsConcaveVertex_RejectsStraight(left_vertex, center_vertex, right_vertex) ==
  VertexCross(left_vertex, center_vertex, right_vertex) <= 0

IsConcaveVertex(left_vertex, center_vertex, right_vertex) ==
  VertexCross(left_vertex, center_vertex, right_vertex) < 0

NoError == None

\* the turn at the vertex tested before the state of the edge
RECURSIVE ScanEdges_ConcaveBeforeConnected(_, _, _, _)
ScanEdges_ConcaveBeforeConnected(m, connectivity_set, polygon_index, i) ==
  LET polygon == At(m.polygons, polygon_index)
      n == Len(polygon)
  IN
  IF i >= n
  THEN [error |-> NoError, connectivity_set |-> connectivity_set]
  ELSE
    LET left_vertex == At(polygon, IF i = 0 THEN n - 1 ELSE i - 1)
        center_vertex == At(polygon, i)
        right_vertex == At(polygon, IF i = n - 1 THEN 0 ELSE i + 1)
        edge == NormalizedEdge(center_vertex, right_vertex)
        state == StateOf(connectivity_set, edge)
    IN
    IF edge[1] = edge[2]
    THEN [error |-> Some(<<"DegenerateEdgeInPolygon", polygon_index>>),
          connectivity_set |-> connectivity_set]
    ELSE IF IsConcaveVertex(XZ(At(m.vertices, left_vertex)),
                            XZ(At(m.vertices, center_vertex)),
                            XZ(At(m.vertices, right_vertex)))
    THEN [error |-> Some(<<"ConcavePolygon", polygon_index>>),
          connectivity_set |-> connectivity_set]
    ELSE IF state.tag = "Connected"
    THEN [error |-> Some(<<"DoublyConnectedEdge", edge[1], edge[2]>>),
          connectivity_set |-> connectivity_set]
    ELSE
      ScanEdges_ConcaveBeforeConnected(
        m, PutEdge(connectivity_set, edge,
                   AdvanceState(state, polygon_index, i)),
        polygon_index, i + 1)

\* nav_mesh.rs:97-156: the loop over the vertices of one polygon.
RECURSIVE ScanEdges(_, _, _, _)
ScanEdges(m, connectivity_set, polygon_index, i) ==
  LET polygon == At(m.polygons, polygon_index)
      n == Len(polygon)
  IN
  IF i >= n
  THEN [error |-> NoError, connectivity_set |-> connectivity_set]
  ELSE
    LET left_vertex == At(polygon, IF i = 0 THEN n - 1 ELSE i - 1)
        center_vertex == At(polygon, i)
        right_vertex == At(polygon, IF i = n - 1 THEN 0 ELSE i + 1)
        edge == NormalizedEdge(center_vertex, right_vertex)
        state == StateOf(connectivity_set, edge)
    IN
    IF edge[1] = edge[2]
    THEN [error |-> Some(<<"DegenerateEdgeInPolygon", polygon_index>>),
          connectivity_set |-> connectivity_set]
    ELSE IF state.tag = "Connected"
    THEN [error |-> Some(<<"DoublyConnectedEdge", edge[1], edge[2]>>),
          connectivity_set |-> connectivity_set]
    ELSE
      LET next_set ==
            PutEdge(connectivity_set, edge,
                    AdvanceState(state, polygon_index, i))
      IN
      IF IsConcaveVertex(XZ(At(m.vertices, left_vertex)),
                         XZ(At(m.vertices, center_vertex)),
                         XZ(At(m.vertices, right_vertex)))
      THEN [error |-> Some(<<"ConcavePolygon", polygon_index>>),
            connectivity_set |-> next_set]
      ELSE ScanEdges(m, next_set, polygon_index, i + 1)

\* nav_mesh.rs:85-95: the checks made before the edges of a polygon are read.
\* two vertices let through
PolygonTooSmall_OffByOne(polygon) == Len(polygon) < 2

PolygonTooSmall(polygon) == Len(polygon) < 3

HasInvalidVertexIndex(m, polygon) ==
  \E k \in Indices(polygon) : At(polygon, k) >= Len(m.vertices)

\* nav_mesh.rs:84-157: the loop over the polygons.
RECURSIVE ScanPolygons(_, _, _)
ScanPolygons(m, connectivity_set, polygon_index) ==
  IF polygon_index >= Len(m.polygons)
  THEN [error |-> NoError, connectivity_set |-> connectivity_set]
  ELSE
    LET polygon == At(m.polygons, polygon_index) IN
    IF PolygonTooSmall(polygon)
    THEN [error |-> Some(<<"NotEnoughVerticesInPolygon", polygon_index>>),
          connectivity_set |-> connectivity_set]
    ELSE IF HasInvalidVertexIndex(m, polygon)
    THEN [error |-> Some(<<"InvalidVertexIndexInPolygon", polygon_index>>),
          connectivity_set |-> connectivity_set]
    ELSE
      LET scanned == ScanEdges(m, connectivity_set, polygon_index, 0) IN
      IF scanned.error # NoError
      THEN scanned
      ELSE ScanPolygons(m, scanned.connectivity_set, polygon_index + 1)

\* nav_mesh.rs:164-167: a Boundary state pushes one MeshEdgeRef.
BoundaryEntries(state) ==
  IF state.tag = "Boundary"
  THEN SetToBag({[polygon_index |-> state.polygon, edge_index |-> state.edge]})
  ELSE EmptyBag

\* nav_mesh.rs:168-182: a Connected state pushes one Connectivity into each of
\* its two polygons; this is what it pushes into connectivity[p].
ConnectivityEntries(state, p) ==
  IF state.tag = "Connected"
  THEN (IF state.polygon_1 = p
        THEN SetToBag({[edge_index |-> state.edge_1,
                        polygon_index |-> state.polygon_2]})
        ELSE EmptyBag)
       (+)
       (IF state.polygon_2 = p
        THEN SetToBag({[edge_index |-> state.edge_2,
                        polygon_index |-> state.polygon_1]})
        ELSE EmptyBag)
  ELSE EmptyBag

\* nav_mesh.rs:159-184: connectivity_set.values() is a HashMap iteration, so
\* the order of the pushes is unspecified ("The order of edges is undefined",
\* nav_mesh.rs:217): each Vec is modelled as the bag of what is pushed.
RECURSIVE PushAll(_, _)
PushAll(pushes, keys) ==
  IF keys = {} THEN EmptyBag
  ELSE LET edge == CHOOSE e \in keys : TRUE
       IN pushes[edge] (+) PushAll(pushes, keys \ {edge})

DeriveBoundaryEdges(connectivity_set) ==
  PushAll([e \in DOMAIN connectivity_set |->
             BoundaryEntries(connectivity_set[e])],
          DOMAIN connectivity_set)

DeriveConnectivity(m, connectivity_set) ==
  [p \in Indices(m.polygons) |->
     PushAll([e \in DOMAIN connectivity_set |->
                ConnectivityEntries(connectivity_set[e], p)],
             DOMAIN connectivity_set)]

EmptyConnectivitySet == [e \in {} |-> [tag |-> "Disconnected"]]

\* nav_mesh.rs:47-195
validate(m) ==
  LET bounds == ComputeMeshBounds(m) IN
  IF bounds.panic
  THEN [kind |-> "Panic"]
  ELSE
    LET scanned == ScanPolygons(m, EmptyConnectivitySet, 0) IN
    IF scanned.error # NoError
    THEN [kind |-> "Err", error |-> Unwrap(scanned.error)]
    ELSE [kind |-> "Ok",
          region_bounds |->
            Unwrap(ComputeRegionBounds(m, bounds.mesh_bounds)),
          mesh_bounds |-> Unwrap(bounds.mesh_bounds),
          vertices |-> m.vertices,
          polygons |-> m.polygons,
          connectivity |-> DeriveConnectivity(m, scanned.connectivity_set),
          boundary_edges |-> DeriveBoundaryEdges(scanned.connectivity_set)]

(***************************************************************************)
(* The meshes validate is applied to.                                      *)
(***************************************************************************)
\* the triangle of error_on_concave_polygon, in accepted order
TriangleVertices == <<<<0, 0, 0>>, <<1, 0, 0>>, <<1, 0, 1>>>>
\* a unit square on XZ with uneven heights
SquareVertices == <<<<0, 0, 0>>, <<1, 1, 0>>, <<1, 0, 1>>, <<0, -1, 1>>>>
\* three vertices on one line and one beside it
LineVertices == <<<<0, 0, 0>>, <<1, 0, 0>>, <<2, 0, 0>>, <<1, 2, 1>>>>
\* five vertices in convex position
PentagonVertices ==
  <<<<1, 0, 0>>, <<3, 0, 1>>, <<3, 1, 3>>, <<1, 0, 4>>, <<0, -1, 2>>>>

FakeBounds == Some(<<<<-5, -5, -5>>, <<5, 5, 5>>>>)
BoundsChoices == {None, FakeBounds}

\* short polygons over vertex indices 0 .. 3, each listed from its smallest
\* index on (in either direction, with or without a repeated index)
SmallPolygons ==
  {p \in [1 .. 3 -> 0 .. 3] : p[1] <= p[2] /\ p[1] <= p[3]}
    \cup [1 .. 2 -> 0 .. 1]

Mesh(rb, mb, vs, ps) ==
  [region_bounds |-> rb, mesh_bounds |-> mb, vertices |-> vs, polygons |-> ps]

\* up to MaxPolys short polygons, bounds left to validate
GeneralMeshes ==
  {Mesh(None, None, vs, ps) :
     vs \in {TriangleVertices, SquareVertices},
     ps \in SeqsUpTo(SmallPolygons, 0, MaxPolys)}

\* one polygon of 3 to MaxPolyLen vertices, every order of indices
LongPolygonMeshes ==
  {Mesh(None, None, LineVertices, <<p>>) :
     p \in SeqsUpTo(0 .. 3, 3, MaxPolyLen)}
    \cup
  {Mesh(None, None, PentagonVertices, <<p>>) :
     p \in SeqsUpTo(0 .. 4, 3, MaxPolyLen)}

\* every combination of supplied and missing bounds, also on no vertices
BoundsMeshes ==
  {Mesh(rb, mb, vs, ps) :
     rb \in BoundsChoices, mb \in BoundsChoices,
     vs \in {<<>>, TriangleVertices, SquareVertices},
     ps \in {<<>>, <<<<0, 1, 2>>>>}}

\* a triangle followed by one polygon of 1 to MaxPolyLen - 1 vertices, every
\* choice of indices, also indices past the vertices of the triangle mesh
OrderMeshes ==
  {Mesh(None, None, vs, <<p, q>>) :
     vs \in {TriangleVertices, SquareVertices},
     p \in {<<0, 1, 2>>},
     q \in SeqsUpTo(0 .. 3, 1, MaxPolyLen - 1)}

MeshInputs ==
  GeneralMeshes \cup LongPolygonMeshes \cup BoundsMeshes \cup OrderMeshes

NotRun == [kind |-> "NotRun"]

Init ==
  /\ mesh \in MeshInputs
  /\ result = NotRun
  /\ nav_data = None
  /\ request = None
  /\ path_result = NotRun
  /\ walk = None
  /\ agent = None
  /\ has_reached = NotRun
  /\ query_result = NotRun

Validate ==
  /\ result = NotRun
  /\ result' = validate(mesh)
  /\ UNCHANGED <<mesh, nav_data, request, path_result, walk, agent, has_reached,
                 query_result>>

Next == Validate

Spec == Init /\ [][Next]_vars

(***************************************************************************)
(* What the claims about validate are stated with.  These definitions read *)
(* only the input mesh; none of them uses the scan above.                  *)
(***************************************************************************)
Ok == result.kind = "Ok"
IsError(tag) == result.kind = "Err" /\ result.error[1] = tag

\* every (polygon, edge index) of the mesh
PolygonEdges(m) ==
  {<<p, e>> \in Indices(m.polygons) \X (0 .. MaxPolyLen + 1) :
     e < Len(At(m.polygons, p))}

\* the two vertex indices of polygon edge pe, as a set
EdgeVertices(m, pe) ==
  LET polygon == At(m.polygons, pe[1])
  IN {At(polygon, pe[2]), At(polygon, (pe[2] + 1) % Len(polygon))}

\* the polygon edges on the same undirected edge as pe
Uses(m, pe) ==
  {q \in PolygonEdges(m) : EdgeVertices(m, q) = EdgeVertices(m, pe)}

\* twice the signed area of triangle (a, b, c) on XZ
Orient(a, b, c) ==
  (b[1] - a[1]) * (c[2] - a[2]) - (b[2] - a[2]) * (c[1] - a[1])

IndicesInRange(m, polygon) ==
  \A k \in Indices(polygon) : At(polygon, k) < Len(m.vertices)

\* the XZ position of vertex k (cyclically) of a polygon
Corner(m, polygon, k) == XZ(At(m.vertices, At(polygon, k % Len(polygon))))

\* the turn made at vertex k: incoming direction x outgoing direction
TurnAt(m, polygon, k) ==
  Orient(Corner(m, polygon, k + Len(polygon) - 1),
         Corner(m, polygon, k),
         Corner(m, polygon, k + 1))

HasRightTurn(m, polygon) ==
  \E k \in Indices(polygon) : TurnAt(m, polygon, k) < 0

HasDegenerateEdge(polygon) ==
  \E k \in Indices(polygon) :
    At(polygon, k) = At(polygon, (k + 1) % Len(polygon))

SumTo(f, n) ==
  LET total[k \in 0 .. n] == IF k = 0 THEN 0 ELSE total[k - 1] + f[k - 1]
  IN total[n]

\* twice the signed area of the polygon on XZ
SignedArea2(m, polygon) ==
  SumTo([k \in Indices(polygon) |->
           LET a == Corner(m, polygon, k)
               b == Corner(m, polygon, k + 1)
           IN a[1] * b[2] - a[2] * b[1]],
        Len(polygon))

\* the polygon lies on the left of (or on) the line of each of its edges
InLeftHalfPlanes(m, polygon) ==
  \A k \in Indices(polygon), j \in Indices(polygon) :
    Orient(Corner(m, polygon, k), Corner(m, polygon, k + 1),
           Corner(m, polygon, j)) >= 0

Between(a, b, p) ==
  /\ Min2(a[1], b[1]) <= p[1] /\ p[1] <= Max2(a[1], b[1])
  /\ Min2(a[2], b[2]) <= p[2] /\ p[2] <= Max2(a[2], b[2])

\* closed segments ab and cd have a common point
SegmentsMeet(a, b, c, d) ==
  LET o1 == Orient(a, b, c)
      o2 == Orient(a, b, d)
      o3 == Orient(c, d, a)
      o4 == Orient(c, d, b)
  IN \/ (o1 * o2 < 0 /\ o3 * o4 < 0)
     \/ (o1 = 0 /\ Between(a, b, c))
     \/ (o2 = 0 /\ Between(a, b, d))
     \/ (o3 = 0 /\ Between(c, d, a))
     \/ (o4 = 0 /\ Between(c, d, b))

\* a simple polygon: distinct corners, consecutive edges meet only at their
\* common corner, other edges do not meet at all
IsSimple(m, polygon) ==
  LET n == Len(polygon)
      C(k) == Corner(m, polygon, k)
  IN /\ \A j, k \in Indices(polygon) : j # k => C(j) # C(k)
     /\ \A k \in Indices(polygon) :
          ~ (Orient(C(k), C(k + 1), C(k + 2)) = 0
             /\ Between(C(k), C(k + 1), C(k + 2)))
     /\ \A j, k \in Indices(polygon) :
          (j < k /\ k # j + 1 /\ (k + 1) % n # j)
            => ~ SegmentsMeet(C(j), C(j + 1), C(k), C(k + 1))

\* the input mesh cut to its first n polygons
Prefix(m, n) == [m EXCEPT !.polygons = SubSeq(m.polygons, 1, n)]

(***************************************************************************)
(* C1                                                                      *)
(***************************************************************************)
ConnectivityTotal(r) ==
  SumTo([p \in Indices(r.polygons) |-> BagCardinality(r.connectivity[p])],
        Len(r.polygons))

\* C1: in every mesh validate accepts, a polygon edge alone on its undirected
\* edge appears exactly once in boundary_edges and in no connectivity entry;
\* two polygon edges (p1,e1), (p2,e2) on one undirected edge give exactly the
\* entries e1 -> p2 in connectivity[p1] and e2 -> p1 in connectivity[p2]; and
\* there is nothing else: polygon edges = connectivity entries + boundary
\* entries.
C1_ConnectivityAndBoundary ==
  Ok =>
    /\ \A pe \in PolygonEdges(mesh) :
         LET others == Uses(mesh, pe) \ {pe}
             ref == [polygon_index |-> pe[1], edge_index |-> pe[2]]
         IN /\ others = {} =>
                 /\ CopiesIn(ref, result.boundary_edges) = 1
                 /\ \A c \in BagToSet(result.connectivity[pe[1]]) :
                      c.edge_index # pe[2]
            /\ \A q \in others :
                 /\ CopiesIn([edge_index |-> pe[2], polygon_index |-> q[1]],
                             result.connectivity[pe[1]]) = 1
                 /\ CopiesIn(ref, result.boundary_edges) = 0
    /\ BagCardinality(result.boundary_edges)
         = Cardinality({pe \in PolygonEdges(mesh) :
                          Cardinality(Uses(mesh, pe)) = 1})
    /\ ConnectivityTotal(result)
         = Cardinality({pe \in PolygonEdges(mesh) :
                          Cardinality(Uses(mesh, pe)) = 2})
    /\ Cardinality(PolygonEdges(mesh))
         = ConnectivityTotal(result) + BagCardinality(result.boundary_edges)

\* an accepted mesh of two different polygons with a shared and an unshared edge
C1_Witness ==
  /\ Ok
  /\ Len(mesh.polygons) = 2
  /\ \A p \in Indices(mesh.polygons) :
       SignedArea2(mesh, At(mesh.polygons, p)) > 0
  /\ BagCardinality(result.boundary_edges) > 0
  /\ BagCardinality(result.connectivity[0]) = 1
  /\ BagCardinality(result.connectivity[1]) = 1

(***************************************************************************)
(* C2                                                                      *)
(***************************************************************************)
StructurallySound(m) ==
  \A p \in Indices(m.polygons) :
    LET polygon == At(m.polygons, p)
    IN /\ Len(polygon) >= 3
       /\ IndicesInRange(m, polygon)
       /\ ~ HasDegenerateEdge(polygon)

EdgesUsedAtMostTwice(m) ==
  \A pe \in PolygonEdges(m) : Cardinality(Uses(m, pe)) <= 2

DistinctCorners(m, polygon) ==
  \A j, k \in Indices(polygon) :
    j # k => Corner(m, polygon, j) # Corner(m, polygon, k)

Before(q, pe) == q[1] < pe[1] \/ (q[1] = pe[1] /\ q[2] <= pe[2])

\* pe is (at least) the third polygon edge read on its undirected edge
IsThirdUse(m, pe) ==
  Cardinality({q \in Uses(m, pe) : Before(q, pe)}) >= 3

ThirdUses(m) == {pe \in PolygonEdges(m) : IsThirdUse(m, pe)}

FirstOf(S) == CHOOSE pe \in S : \A q \in S : Before(pe, q)

\* C3: DoublyConnectedEdge(va, vb) has va < vb and names an undirected edge
\* used at least three times; a mesh whose only defect is such an edge gets
\* this error for the first edge read a third time; no accepted mesh uses an
\* edge more than twice.
C3_DoublyConnectedEdge ==
  /\ IsError("DoublyConnectedEdge") =>
       /\ result.error[2] < result.error[3]
       /\ \E pe \in ThirdUses(mesh) :
            EdgeVertices(mesh, pe) = {result.error[2], result.error[3]}
  /\ Ok => ThirdUses(mesh) = {}
  /\ ( /\ result.kind \in {"Ok", "Err"}
       /\ StructurallySound(mesh)
       /\ \A p \in Indices(mesh.polygons) :
            ~ HasRightTurn(mesh, At(mesh.polygons, p))
       /\ ThirdUses(mesh) # {} )
     => /\ IsError("DoublyConnectedEdge")
        /\ {result.error[2], result.error[3]}
             = EdgeVertices(mesh, FirstOf(ThirdUses(mesh)))

\* the error is returned for a mesh without any other defect
C3_Witness ==
  /\ IsError("DoublyConnectedEdge")
  /\ StructurallySound(mesh)
  /\ \A p \in Indices(mesh.polygons) :
       ~ HasRightTurn(mesh, At(mesh.polygons, p))

(***************************************************************************)
(* C4                                                                      *)
(***************************************************************************)
RightTurnPolygons(m) ==
  {p \in Indices(m.polygons) : HasRightTurn(m, At(m.polygons, p))}

\* C4: ConcavePolygon(i) is returned only for a polygon that turns right at
\* some vertex (negative XZ cross product), never for one whose cross product
\* is >= 0 everywhere; a mesh whose only defect is a right turn gets this
\* error for the first such polygon; and no accepted mesh holds a polygon
\* with a right turn or one listed clockwise (negative area).
C4_ConcavePolygon ==
  /\ IsError("ConcavePolygon") =>
       /\ result.error[2] \in Indices(mesh.polygons)
       /\ HasRightTurn(mesh, At(mesh.polygons, result.error[2]))
  /\ Ok =>
       /\ RightTurnPolygons(mesh) = {}
       /\ \A p \in Indices(mesh.polygons) :
            SignedArea2(mesh, At(mesh.polygons, p)) >= 0
  /\ ( /\ result.kind \in {"Ok", "Err"}
       /\ StructurallySound(mesh)
       /\ ThirdUses(mesh) = {}
       /\ RightTurnPolygons(mesh) # {} )
     => /\ IsError("ConcavePolygon")
        /\ \A p \in RightTurnPolygons(mesh) : result.error[2] <= p

\* a clockwise triangle is rejected as concave
C4_Witness ==
  /\ IsError("ConcavePolygon")
  /\ Len(At(mesh.polygons, result.error[2])) = 3
  /\ SignedArea2(mesh, At(mesh.polygons, result.error[2])) < 0

Least(S) == CHOOSE x \in S : \A y \in S : x <= y
Greatest(S) == CHOOSE x \in S : \A y \in S : x >= y
Coordinates(vertices, axis) == {vertices[k][axis] : k \in DOMAIN vertices}

\* the tight bounding box of a non-empty vertex list
TightBounds(vertices) ==
  <<[axis \in 1 .. 3 |-> Least(Coordinates(vertices, axis))],
    [axis \in 1 .. 3 |-> Greatest(Coordinates(vertices, axis))]>>

\* C6: the validated mesh has mesh_bounds equal to the caller's when given
\* (tight or not) and to the componentwise min/max of the vertices when not;
\* region_bounds equal to the caller's when given and to the resulting
\* mesh_bounds when not; vertices and polygons equal to the input's.
C6_BoundsAndCopies ==
  Ok =>
    /\ result.mesh_bounds =
         (IF mesh.mesh_bounds = None
          THEN TightBounds(mesh.vertices)
          ELSE Unwrap(mesh.mesh_bounds))
    /\ result.region_bounds =
         (IF mesh.region_bounds = None
          THEN result.mesh_bounds
          ELSE Unwrap(mesh.region_bounds))
    /\ result.vertices = mesh.vertices
    /\ result.polygons = mesh.polygons

\* bounds computed from vertices of different heights, region bounds supplied
C6_Witness ==
  /\ Ok
  /\ mesh.mesh_bounds = None
  /\ mesh.region_bounds # None
  /\ mesh.polygons # <<>>
  /\ result.mesh_bounds[1][2] < result.mesh_bounds[2][2]

(***************************************************************************)
(* Part 2.  The navigation data that paths are searched in.                *)
(*                                                                         *)
(* Lengths are exact: the islands are grids of rectangles with even sides, *)
(* so every travel distance and link cost is a whole number.  The rounding *)
(* of f32 is not modelled.                                                 *)
(***************************************************************************)
\* number of columns of squares in the larger island
GridWidth == 3
\* largest cost of a node type
MaxCost == 5

MapGet(map, key) == IF key \in DOMAIN map THEN Some(map[key]) ELSE None

RECURSIVE SetToSeq(_)
SetToSeq(S) ==
  IF S = {} THEN <<>>
  ELSE LET x == CHOOSE x \in S : TRUE IN <<x>> \o SetToSeq(S \ {x})

Abs(n) == IF n < 0 THEN -n ELSE n
\* n / d where d divides n
Quotient(n, d) == CHOOSE q \in -Abs(n) .. Abs(n) : q * d = n
\* the square root of a perfect square
Root(n) == CHOOSE r \in 0 .. n : r * r = n

Vec3Add(a, b) == <<a[1] + b[1], a[2] + b[2], a[3] + b[3]>>
Vec3Div(a, d) == <<Quotient(a[1], d), Quotient(a[2], d), Quotient(a[3], d)>>
\* Vec3::distance_squared
DistanceSquared(a, b) ==
  (a[1] - b[1]) * (a[1] - b[1]) + (a[2] - b[2]) * (a[2] - b[2])
    + (a[3] - b[3]) * (a[3] - b[3])
\* Vec3::distance, where it is a whole number
Distance(a, b) == Root(DistanceSquared(a, b))
Midpoint(a, b) == Vec3Div(Vec3Add(a, b), 2)

\* Transform: a rotation about Y, here in quarter turns, then a translation
RotateY(p, quarter_turns) ==
  CASE quarter_turns = 0 -> p
    [] quarter_turns = 1 -> <<p[3], p[2], -p[1]>>
    [] quarter_turns = 2 -> <<-p[1], p[2], -p[3]>>
    [] quarter_turns = 3 -> <<-p[3], p[2], p[1]>>

TransformApply(transform, p) ==
  Vec3Add(RotateY(p, transform.rotation), transform.translation)

NodeRef(island_id, polygon_index) ==
  [island_id |-> island_id, polygon_index |-> polygon_index]

\* x of the grid line left of column ix: the columns are alternately 2 and
\* 4 wide, which makes the two travel distances across an edge differ
GridX(ix) == 3 * ix - (ix % 2)

\* a grid of w by 2 cells, each 2 deep, on the XZ plane, listed row by row
GridVertices(w) ==
  [k \in 1 .. (w + 1) * 3 |->
     <<GridX((k - 1) % (w + 1)), 0, 2 * ((k - 1) \div (w + 1))>>]

GridPolygons(w) ==
  [k \in 1 .. w * 2 |->
     LET cx == (k - 1) % w
         cz == (k - 1) \div w
         v(ix, iz) == ix + (w + 1) * iz
     IN <<v(cx, cz), v(cx + 1, cz), v(cx + 1, cz + 1), v(cx, cz + 1)>>]

GridMesh(w) == validate(Mesh(None, None, GridVertices(w), GridPolygons(w)))

\* the mean of a polygon's vertices
PolygonCenter(vertices, polygon) ==
  LET RECURSIVE Sum(_)
      Sum(k) == IF k = 0 THEN Vec3Zero
                ELSE Vec3Add(Sum(k - 1), At(vertices, polygon[k]))
  IN Vec3Div(Sum(Len(polygon)), Len(polygon))

\* the two ends of edge e of a polygon, in the polygon's direction
EdgeVertices3(vertices, polygon, e) ==
  <<At(vertices, At(polygon, e)),
    At(vertices, At(polygon, (e + 1) % Len(polygon)))>>

\* A ValidNavigationMesh as pathfinding reads it: per polygon, connectivity
\* indexed by edge (None on a boundary edge) with travel_distances =
\* (centre to edge midpoint, edge midpoint to neighbour's centre), the type
\* index and the centre.
ValidPolygons(valid, type_indices) ==
  [k \in 1 .. Len(valid.polygons) |->
     LET polygon == valid.polygons[k]
         center(p) == PolygonCenter(valid.vertices, At(valid.polygons, p))
         connection(e) ==
           LET found == {c \in BagToSet(valid.connectivity[k - 1]) :
                           c.edge_index = e}
               ends == EdgeVertices3(valid.vertices, polygon, e)
               mid == Midpoint(ends[1], ends[2])
           IN IF found = {} THEN None
              ELSE LET c == CHOOSE c \in found : TRUE IN
                   Some([polygon_index |-> c.polygon_index,
                         travel_distances |->
                           <<Distance(center(k - 1), mid),
                             Distance(mid, center(c.polygon_index))>>])
     IN [vertices |-> polygon,
         connectivity |-> [e1 \in 1 .. Len(polygon) |-> connection(e1 - 1)],
         type_index |-> type_indices[k],
         center |-> center(k - 1)]]

ValidNavigationMesh(valid, type_indices) ==
  [vertices |-> valid.vertices,
   polygons |-> ValidPolygons(valid, type_indices),
   boundary_edges |-> BagToSet(valid.boundary_edges)]

\* an island with nav_data
Island(transform, nav_mesh, type_index_to_node_type) ==
  [nav_data |-> Some([transform |-> transform,
                      nav_mesh |-> nav_mesh,
                      type_index_to_node_type |-> type_index_to_node_type])]

\* the ends of a boundary edge in world space
WorldEdge(island, edge_ref) ==
  LET island_nav_data == Unwrap(island.nav_data)
      nav_mesh == island_nav_data.nav_mesh
      ends == EdgeVertices3(nav_mesh.vertices,
                At(nav_mesh.polygons, edge_ref.polygon_index).vertices,
                edge_ref.edge_index)
  IN <<TransformApply(island_nav_data.transform, ends[1]),
       TransformApply(island_nav_data.transform, ends[2])>>

WorldCenter(island, polygon_index) ==
  LET island_nav_data == Unwrap(island.nav_data) IN
  TransformApply(island_nav_data.transform,
    At(island_nav_data.nav_mesh.polygons, polygon_index).center)

\* the boundary edges of all islands
BoundarySides(islands) ==
  UNION {{[island_id |-> i, edge_ref |-> b] :
            b \in Unwrap(islands[i].nav_data).nav_mesh.boundary_edges} :
         i \in {j \in DOMAIN islands : islands[j].nav_data # None}}

\* links between boundary edges that run the same way
LinkPairs_SameDirection(islands) ==
  {pair \in BoundarySides(islands) \X BoundarySides(islands) :
     /\ pair[1].island_id # pair[2].island_id
     /\ LET a == WorldEdge(islands[pair[1].island_id], pair[1].edge_ref)
            b == WorldEdge(islands[pair[2].island_id], pair[2].edge_ref)
        IN a[1] = b[1] /\ a[2] = b[2]}

\* Boundary links: one from each boundary edge to the boundary edge of
\* another island that covers the same segment in the opposite direction.
\* The islands of the model are placed so that two boundary edges overlap
\* fully or not at all.
LinkPairs(islands) ==
  {pair \in BoundarySides(islands) \X BoundarySides(islands) :
     /\ pair[1].island_id # pair[2].island_id
     /\ LET a == WorldEdge(islands[pair[1].island_id], pair[1].edge_ref)
            b == WorldEdge(islands[pair[2].island_id], pair[2].edge_ref)
        IN a[1] = b[2] /\ a[2] = b[1]}

\* one id for each pair of edges: an edge has a link for every edge of
\* another island that covers it
BoundaryLinkId(pair) ==
  <<pair[1].island_id, pair[1].edge_ref.polygon_index,
    pair[1].edge_ref.edge_index,
    pair[2].island_id, pair[2].edge_ref.polygon_index,
    pair[2].edge_ref.edge_index>>

SideNode(side) == NodeRef(side.island_id, side.edge_ref.polygon_index)

\* a link whose cost is twice the way from the source to the portal
BoundaryLink_CostFromSource(islands, pair) ==
  LET portal == WorldEdge(islands[pair[1].island_id], pair[1].edge_ref)
      mid == Midpoint(portal[1], portal[2])
  IN [destination_node |-> SideNode(pair[2]),
      portal |-> portal,
      cost |->
        2 * Distance(WorldCenter(islands[pair[1].island_id],
                                 pair[1].edge_ref.polygon_index), mid)]

\* cost = dist(centre of source, portal midpoint)
\*        + dist(portal midpoint, centre of destination)
BoundaryLink(islands, pair) ==
  LET portal == WorldEdge(islands[pair[1].island_id], pair[1].edge_ref)
      mid == Midpoint(portal[1], portal[2])
  IN [destination_node |-> SideNode(pair[2]),
      portal |-> portal,
      cost |->
        Distance(WorldCenter(islands[pair[1].island_id],
                             pair[1].edge_ref.polygon_index), mid)
        + Distance(mid, WorldCenter(islands[pair[2].island_id],
                                    pair[2].edge_ref.polygon_index))]

NavigationData(islands, node_type_to_cost) ==
  LET pairs == LinkPairs(islands) IN
  [islands |-> islands,
   boundary_links |->
     [id \in {BoundaryLinkId(pair) : pair \in pairs} |->
        BoundaryLink(islands,
          CHOOSE pair \in pairs : BoundaryLinkId(pair) = id)],
   node_to_boundary_link_ids |->
     [node \in {SideNode(pair[1]) : pair \in pairs} |->
        {BoundaryLinkId(pair) : pair \in {q \in pairs : SideNode(q[1]) = node}}],
   node_type_to_cost |-> node_type_to_cost]

get_island(nav, island_id) == MapGet(nav.islands, island_id)
get_node_type_cost(nav, node_type) == MapGet(nav.node_type_to_cost, node_type)

Nodes(nav) ==
  UNION {{NodeRef(i, p) :
            p \in Indices(Unwrap(nav.islands[i].nav_data).nav_mesh.polygons)} :
         i \in {j \in DOMAIN nav.islands : nav.islands[j].nav_data # None}}

\* the nodes one step away: across a connected edge or a boundary link
Neighbours(nav, node) ==
  LET polygon ==
        At(Unwrap(nav.islands[node.island_id].nav_data).nav_mesh.polygons,
           node.polygon_index)
  IN {NodeRef(node.island_id, Unwrap(polygon.connectivity[e1]).polygon_index) :
        e1 \in {e \in DOMAIN polygon.connectivity :
                  polygon.connectivity[e] # None}}
     \cup
     {nav.boundary_links[id].destination_node :
        id \in (IF node \in DOMAIN nav.node_to_boundary_link_ids
                THEN nav.node_to_boundary_link_ids[node] ELSE {})}

RECURSIVE Reachable(_, _)
Reachable(nav, seen) ==
  LET next == seen \cup UNION {Neighbours(nav, n) : n \in seen} IN
  IF next = seen THEN seen ELSE Reachable(nav, next)

\* NavigationData::are_nodes_connected: the cached reachability
are_nodes_connected(nav, node_1, node_2) == node_2 \in Reachable(nav, {node_1})

(***************************************************************************)
(* pathfinding.rs: the A* problem of an archipelago.                       *)
(*                                                                         *)
(* A problem is [nav_data, start_node, end_node, end_point,                *)
(* override_node_type_costs].  A PathStep is <<"NodeConnection", edge>> or *)
(* <<"BoundaryLink", id>>.  The heuristic is a distance that need not be   *)
(* whole: the model carries its square, and estimates (cost so far plus    *)
(* heuristic) are compared exactly.                                        *)
(***************************************************************************)

\* The cost of a node type for this search: the agent's override when it has
\* one, else the archipelago's cost (query.rs:110-115 hands the overrides to
\* pathfinding::find_path).
NodeTypeCost(problem, node_type) ==
  IF node_type \in DOMAIN problem.override_node_type_costs
  THEN Some(problem.override_node_type_costs[node_type])
  ELSE get_node_type_cost(problem.nav_data, node_type)

\* pathfinding.rs:56-68
type_index_to_node_cost(type_index, island_nav_data, problem) ==
  LET node_type == MapGet(island_nav_data.type_index_to_node_type, type_index)
  IN IF node_type = None
     THEN 1
     ELSE Unwrap(NodeTypeCost(problem, Unwrap(node_type)))

\* the two travel distances taken the wrong way round
NodeConnectionCost_SwappedDistances(conn, current_node_cost, target_node_cost) ==
  conn.travel_distances[2] * current_node_cost
    + conn.travel_distances[1] * target_node_cost

\* pathfinding.rs:90-91
NodeConnectionCost(conn, current_node_cost, target_node_cost) ==
  conn.travel_distances[1] * current_node_cost
    + conn.travel_distances[2] * target_node_cost

\* a link whose cost is scaled by the cost of the node it arrives in
BoundaryLinkSuccessor_ScaledByNodeCost(problem, link_id) ==
  LET link == Unwrap(MapGet(problem.nav_data.boundary_links, link_id))
      island_nav_data ==
        Unwrap(Unwrap(get_island(problem.nav_data,
                                 link.destination_node.island_id)).nav_data)
  IN <<link.cost
         * type_index_to_node_cost(
             At(island_nav_data.nav_mesh.polygons,
                link.destination_node.polygon_index).type_index,
             island_nav_data, problem),
       <<"BoundaryLink", link_id>>, link.destination_node>>

\* pathfinding.rs:102-105
BoundaryLinkSuccessor(problem, link_id) ==
  LET link == Unwrap(MapGet(problem.nav_data.boundary_links, link_id)) IN
  <<link.cost, <<"BoundaryLink", link_id>>, link.destination_node>>

\* pathfinding.rs:43-107.  The result is a Vec of (cost, action, next state):
\* the connected edges in edge order, then the boundary links in the
\* iteration order of a HashSet (no node of the modelled worlds has more than
\* one link).
successors(problem, state) ==
  LET island == Unwrap(get_island(problem.nav_data, state.island_id))
      island_nav_data == Unwrap(island.nav_data)
      polygon == At(island_nav_data.nav_mesh.polygons, state.polygon_index)
      boundary_links ==
        SetToSeq(IF state \in DOMAIN problem.nav_data.node_to_boundary_link_ids
                 THEN problem.nav_data.node_to_boundary_link_ids[state]
                 ELSE {})
      current_node_cost ==
        type_index_to_node_cost(polygon.type_index, island_nav_data, problem)
      connected ==
        SelectSeq([e1 \in DOMAIN polygon.connectivity |-> e1 - 1],
                  LAMBDA e : At(polygon.connectivity, e) # None)
      step(edge_index) ==
        LET conn == Unwrap(At(polygon.connectivity, edge_index))
            target_node_cost ==
              type_index_to_node_cost(
                At(island_nav_data.nav_mesh.polygons,
                   conn.polygon_index).type_index,
                island_nav_data, problem)
        IN <<NodeConnectionCost(conn, current_node_cost, target_node_cost),
             <<"NodeConnection", edge_index>>,
             NodeRef(state.island_id, conn.polygon_index)>>
  IN [k \in DOMAIN connected |-> step(connected[k])]
     \o [k \in DOMAIN boundary_links |->
           BoundaryLinkSuccessor(problem, boundary_links[k])]

\* an estimate of ten times the distance
heuristic_TenTimesTooFar(problem, state) ==
  LET island_nav_data ==
        Unwrap(Unwrap(get_island(problem.nav_data, state.island_id)).nav_data)
  IN 100 * DistanceSquared(
             TransformApply(island_nav_data.transform,
               At(island_nav_data.nav_mesh.polygons,
                  state.polygon_index).center),
             problem.end_point)

\* pathfinding.rs:109-121, as the square of the distance
heuristic(problem, state) ==
  LET island_nav_data ==
        Unwrap(Unwrap(get_island(problem.nav_data, state.island_id)).nav_data)
  IN DistanceSquared(
       TransformApply(island_nav_data.transform,
         At(island_nav_data.nav_mesh.polygons, state.polygon_index).center),
       problem.end_point)

\* pathfinding.rs:123-125
is_goal_state(problem, state) == state = problem.end_node

(***************************************************************************)
(* The A* engine: a heap keyed on cost + heuristic, a closed set, and the  *)
(* actions that led to each open node; ties are broken by insertion order. *)
(***************************************************************************)
\* x.cost + sqrt(x.heuristic) < y.cost + sqrt(y.heuristic), exactly
EstimateLess(x, y) ==
  LET d == y.cost - x.cost
      a == x.heuristic
      b == y.heuristic
  IN IF d >= 0
     THEN \* sqrt(a) < d + sqrt(b)
          IF a <= b THEN d > 0 \/ a < b
          ELSE LET m == a - b - d * d IN
               m < 0 \/ m * m < 4 * d * d * b
     ELSE \* sqrt(a) - d < sqrt(b)
          LET m == b - a - d * d IN
          m > 0 /\ 4 * d * d * a < m * m

\* the position in the open list of the node to expand next
NextOpen(open) ==
  CHOOSE k \in DOMAIN open :
    /\ \A j \in DOMAIN open : ~ EstimateLess(open[j], open[k])
    /\ \A j \in 1 .. k - 1 : EstimateLess(open[k], open[j])

RemoveAt(s, k) == SubSeq(s, 1, k - 1) \o SubSeq(s, k + 1, Len(s))

RECURSIVE AStarLoop(_, _, _, _)
AStarLoop(problem, open, closed, explored_nodes) ==
  IF open = <<>>
  THEN [stats |-> [explored_nodes |-> explored_nodes], path |-> None]
  ELSE
    LET k == NextOpen(open)
        current == open[k]
        rest == RemoveAt(open, k)
    IN IF current.state \in closed
       THEN AStarLoop(problem, rest, closed, explored_nodes)
       ELSE IF is_goal_state(problem, current.state)
       THEN [stats |-> [explored_nodes |-> explored_nodes + 1],
             path |-> Some(current.actions)]
       ELSE
         LET next == successors(problem, current.state)
             pushed ==
               [i \in DOMAIN next |->
                  [state |-> next[i][3],
                   cost |-> current.cost + next[i][1],
                   heuristic |-> heuristic(problem, next[i][3]),
                   actions |-> Append(current.actions, next[i][2])]]
         IN AStarLoop(problem, rest \o pushed,
                      closed \cup {current.state}, explored_nodes + 1)

astar_find_path(problem) ==
  AStarLoop(problem,
    <<[state |-> problem.start_node,
       cost |-> 0,
       heuristic |-> heuristic(problem, problem.start_node),
       actions |-> <<>>]>>,
    {}, 0)

(***************************************************************************)
(* pathfinding::find_path, pathfinding.rs:139-222.                         *)
(***************************************************************************)
NewIslandSegment(node) ==
  [island_id |-> node.island_id,
   corridor |-> <<node.polygon_index>>,
   portal_edge_index |-> <<>>]

\* a link segment that starts where the link arrives
PushPathStep_StartsAtDestination(nav, output_path, path_step) ==
  LET n == Len(output_path.island_segments)
      last_segment == output_path.island_segments[n]
      previous_node == last_segment.corridor[Len(last_segment.corridor)]
  IN IF path_step[1] = "NodeConnection"
     THEN
       LET edge_index == path_step[2]
           nav_mesh ==
             Unwrap(Unwrap(get_island(nav, last_segment.island_id)).nav_data)
               .nav_mesh
           connectivity ==
             Unwrap(At(At(nav_mesh.polygons, previous_node).connectivity,
                       edge_index))
       IN [output_path EXCEPT
             !.island_segments[n] =
               [last_segment EXCEPT
                  !.corridor = Append(@, connectivity.polygon_index),
                  !.portal_edge_index = Append(@, edge_index)]]
     ELSE
       LET boundary_link == Unwrap(MapGet(nav.boundary_links, path_step[2]))
       IN [island_segments |->
             Append(output_path.island_segments,
                    NewIslandSegment(boundary_link.destination_node)),
           boundary_link_segments |->
             Append(output_path.boundary_link_segments,
                    [starting_node |-> boundary_link.destination_node,
                     boundary_link |-> path_step[2]])]

\* pathfinding.rs:180-218: one turn of the loop over the A* path
PushPathStep(nav, output_path, path_step) ==
  LET n == Len(output_path.island_segments)
      last_segment == output_path.island_segments[n]
      previous_node == last_segment.corridor[Len(last_segment.corridor)]
  IN IF path_step[1] = "NodeConnection"
     THEN
       LET edge_index == path_step[2]
           nav_mesh ==
             Unwrap(Unwrap(get_island(nav, last_segment.island_id)).nav_data)
               .nav_mesh
           connectivity ==
             Unwrap(At(At(nav_mesh.polygons, previous_node).connectivity,
                       edge_index))
       IN [output_path EXCEPT
             !.island_segments[n] =
               [last_segment EXCEPT
                  !.corridor = Append(@, connectivity.polygon_index),
                  !.portal_edge_index = Append(@, edge_index)]]
     ELSE
       LET previous == NodeRef(last_segment.island_id, previous_node)
           boundary_link == Unwrap(MapGet(nav.boundary_links, path_step[2]))
       IN [island_segments |->
             Append(output_path.island_segments,
                    NewIslandSegment(boundary_link.destination_node)),
           boundary_link_segments |->
             Append(output_path.boundary_link_segments,
                    [starting_node |-> previous,
                     boundary_link |-> path_step[2]])]

\* pathfinding.rs:170-219
RECURSIVE PushPathSteps(_, _, _, _)
PushPathSteps(nav, output_path, astar_path, k) ==
  IF k > Len(astar_path) THEN output_path
  ELSE PushPathSteps(nav, PushPathStep(nav, output_path, astar_path[k]),
                     astar_path, k + 1)

\* pathfinding.rs:148-221: the search once the nodes are known connected
FindConnectedPath(nav, start_node, end_node, override_node_type_costs) ==
  LET path_problem ==
        [nav_data |-> nav,
         start_node |-> start_node,
         end_node |-> end_node,
         end_point |->
           LET island_nav_data ==
                 Unwrap(Unwrap(get_island(nav, end_node.island_id)).nav_data)
           IN TransformApply(island_nav_data.transform,
                At(island_nav_data.nav_mesh.polygons,
                   end_node.polygon_index).center),
         override_node_type_costs |-> override_node_type_costs]
      astar_result == astar_find_path(path_problem)
  IN IF astar_result.path = None
     THEN [stats |-> astar_result.stats, path |-> None]
     ELSE [stats |-> astar_result.stats,
           path |->
             Some(PushPathSteps(nav,
                    [island_segments |-> <<NewIslandSegment(start_node)>>,
                     boundary_link_segments |-> <<>>],
                    Unwrap(astar_result.path), 1))]

\* a find_path that searches without asking whether the nodes are connected
find_path_WithoutConnectedCheck(nav, start_node, end_node, override_node_type_costs) ==
  FindConnectedPath(nav, start_node, end_node, override_node_type_costs)

\* pathfinding.rs:139-222
find_path(nav, start_node, end_node, override_node_type_costs) ==
  IF ~ are_nodes_connected(nav, start_node, end_node)
  THEN [stats |-> [explored_nodes |-> 0], path |-> None]
  ELSE FindConnectedPath(nav, start_node, end_node, override_node_type_costs)

(***************************************************************************)
(* The worlds paths are searched in: island "a", a grid of GridWidth by 2  *)
(* cells at the origin, and island "b", a grid of 1 by 2 cells placed      *)
(* beside it.                                                              *)
(***************************************************************************)
EmptyMap == [key \in {} |-> key]

GridA == GridMesh(GridWidth)
GridB == GridMesh(1)

\* island "b" against both rows of "a", against the far row only, apart from
\* "a", and turned half round against both rows
IslandBTransforms ==
  {[translation |-> <<GridX(GridWidth), 0, 0>>, rotation |-> 0],
   [translation |-> <<GridX(GridWidth), 0, 2>>, rotation |-> 0],
   [translation |-> <<GridX(GridWidth) + 2, 0, 0>>, rotation |-> 0],
   [translation |-> <<GridX(GridWidth) + 2, 0, 4>>, rotation |-> 2]}

\* the cells of "a" that are in neither its first nor its last column
MiddleCells ==
  {k \in 1 .. 2 * GridWidth : (k - 1) % GridWidth \notin {0, GridWidth - 1}}

\* type indices of the polygons of "a": all 0; 1 on the middle of the near
\* row; 1 on the whole middle; 2 (a type index without a node type) there
TypeIndexChoices ==
  {[k \in 1 .. 2 * GridWidth |-> 0],
   [k \in 1 .. 2 * GridWidth |->
      IF k \in MiddleCells /\ k <= GridWidth THEN 1 ELSE 0],
   [k \in 1 .. 2 * GridWidth |-> IF k \in MiddleCells THEN 1 ELSE 0],
   [k \in 1 .. 2 * GridWidth |-> IF k \in MiddleCells THEN 2 ELSE 0]}

MudCosts == {1, 2, 3, MaxCost}
OverrideChoices ==
  {EmptyMap, "mud" :> 1, ("mud" :> MaxCost) @@ ("sand" :> MaxCost)}

World(transform_b, type_indices, map_b, mud_cost) ==
  NavigationData(
    ("a" :> Island([translation |-> Vec3Zero, rotation |-> 0],
                   ValidNavigationMesh(GridA, type_indices),
                   1 :> "mud"))
    @@
    ("b" :> Island(transform_b,
                   ValidNavigationMesh(GridB, [k \in 1 .. 2 |-> 0]),
                   map_b)),
    ("mud" :> mud_cost) @@ ("sand" :> 2))

InitPath ==
  /\ mesh = Mesh(None, None, GridVertices(GridWidth), GridPolygons(GridWidth))
  /\ result = NotRun
  /\ \E transform_b \in IslandBTransforms, type_indices \in TypeIndexChoices,
        map_b \in {EmptyMap, 0 :> "sand"}, mud_cost \in MudCosts :
       nav_data = World(transform_b, type_indices, map_b, mud_cost)
  /\ request \in [start_node : Nodes(nav_data),
                  end_node : Nodes(nav_data),
                  override_node_type_costs : OverrideChoices]
  /\ path_result = NotRun
  /\ walk = None
  /\ agent = None
  /\ has_reached = NotRun
  /\ query_result = NotRun

\* one call of pathfinding::find_path
FindPath ==
  /\ path_result = NotRun
  /\ path_result' = find_path(nav_data, request.start_node, request.end_node,
                              request.override_node_type_costs)
  /\ UNCHANGED <<mesh, result, nav_data, request, walk, agent, has_reached,
                 query_result>>

NextPath == FindPath

SpecPath == InitPath /\ [][NextPath]_vars

(***************************************************************************)
(* What the claims about find_path are stated with.  These definitions     *)
(* read the navigation data, the request and the returned path only; they  *)
(* use no part of the search.                                              *)
(***************************************************************************)
Searched == path_result # NotRun
Found == Searched /\ path_result.path # None
FoundPath == Unwrap(path_result.path)

IslandNavDataOf(island_id) == Unwrap(nav_data.islands[island_id].nav_data)
PolygonAt(node) ==
  At(IslandNavDataOf(node.island_id).nav_mesh.polygons, node.polygon_index)
ConnectedEdges(node) ==
  {e \in Indices(PolygonAt(node).connectivity) :
     At(PolygonAt(node).connectivity, e) # None}
ConnectionAt(node, e) == Unwrap(At(PolygonAt(node).connectivity, e))
NeighbourAcross(node, e) ==
  NodeRef(node.island_id, ConnectionAt(node, e).polygon_index)
LinksFrom(node) ==
  IF node \in DOMAIN nav_data.node_to_boundary_link_ids
  THEN nav_data.node_to_boundary_link_ids[node]
  ELSE {}

\* the node type of a node, if its type index has one
NodeTypeOf(node) ==
  MapGet(IslandNavDataOf(node.island_id).type_index_to_node_type,
         PolygonAt(node).type_index)

\* the cost of walking in a node: the override of its node type, else the
\* archipelago's cost of its node type, else (no node type) 1
CostIn(node) ==
  IF NodeTypeOf(node) = None THEN 1
  ELSE IF Unwrap(NodeTypeOf(node)) \in DOMAIN request.override_node_type_costs
  THEN request.override_node_type_costs[Unwrap(NodeTypeOf(node))]
  ELSE nav_data.node_type_to_cost[Unwrap(NodeTypeOf(node))]

ConnectionStepCost(node, e) ==
  ConnectionAt(node, e).travel_distances[1] * CostIn(node)
    + ConnectionAt(node, e).travel_distances[2]
        * CostIn(NeighbourAcross(node, e))

\* the steps of the combined graph
Steps ==
  UNION {{[from |-> n, to |-> NeighbourAcross(n, e),
           cost |-> ConnectionStepCost(n, e)] : e \in ConnectedEdges(n)}
         \cup
         {[from |-> n, to |-> nav_data.boundary_links[id].destination_node,
           cost |-> nav_data.boundary_links[id].cost] : id \in LinksFrom(n)} :
         n \in Nodes(nav_data)}

\* the cheapest of the costs that a set of <<node, cost>> gives each node
CheapestEach(candidates) ==
  {p \in candidates : \A q \in candidates : q[1] = p[1] => p[2] <= q[2]}

\* from the nodes reached at some cost, one more step along every edge
OneMoreStep(steps, reached) ==
  reached \cup {<<ps[2].to, ps[1][2] + ps[2].cost>> :
                  ps \in {qt \in reached \X steps : qt[2].from = qt[1][1]}}

\* <<node, cost of the cheapest walk of at most `rounds` steps to it>>
RECURSIVE CheapestWithin(_, _, _)
CheapestWithin(steps, reached, rounds) ==
  IF rounds = 0 THEN reached
  ELSE CheapestWithin(steps, CheapestEach(OneMoreStep(steps, reached)),
                      rounds - 1)

\* the cost of the cheapest route from start_node to end_node
CheapestCost ==
  LET reached == CheapestWithin(Steps, {<<request.start_node, 0>>},
                                Cardinality(Nodes(nav_data)) - 1)
  IN (CHOOSE p \in reached : p[1] = request.end_node)[2]

\* the cost of the returned path, read off its segments
SegmentCost(segment) ==
  LET RECURSIVE Sum(_)
      Sum(j) ==
        IF j = 0 THEN 0
        ELSE Sum(j - 1)
             + ConnectionStepCost(
                 NodeRef(segment.island_id, segment.corridor[j]),
                 segment.portal_edge_index[j])
  IN Sum(Len(segment.portal_edge_index))

FoundPathCost ==
  LET RECURSIVE Segments(_)
      Segments(k) ==
        IF k = 0 THEN 0
        ELSE Segments(k - 1) + SegmentCost(FoundPath.island_segments[k])
      RECURSIVE Links(_)
      Links(k) ==
        IF k = 0 THEN 0
        ELSE Links(k - 1)
             + nav_data.boundary_links[
                 FoundPath.boundary_link_segments[k].boundary_link].cost
  IN Segments(Len(FoundPath.island_segments))
     + Links(Len(FoundPath.boundary_link_segments))

FirstNode(segment) == NodeRef(segment.island_id, segment.corridor[1])
LastNode(segment) ==
  NodeRef(segment.island_id, segment.corridor[Len(segment.corridor)])

(***************************************************************************)
(* C7                                                                      *)
(***************************************************************************)
\* C7: when the cost of walking in every node is at least 1, a path that
\* find_path returns costs exactly what the cheapest route from start_node
\* to end_node costs in the graph of connected edges and boundary links.
C7_MinimumCost ==
  (Found /\ \A n \in Nodes(nav_data) : CostIn(n) >= 1)
    => FoundPathCost = CheapestCost

\* across island "a" the path goes round polygons of the costliest type,
\* through more polygons than the straight way has
C7_Witness ==
  /\ Found
  /\ request.start_node = NodeRef("a", 0)
  /\ request.end_node = NodeRef("a", GridWidth - 1)
  /\ \E n \in Nodes(nav_data) : CostIn(n) = MaxCost
  /\ \A k \in DOMAIN FoundPath.island_segments[1].corridor :
       CostIn(NodeRef("a", FoundPath.island_segments[1].corridor[k])) = 1
  /\ Len(FoundPath.island_segments[1].corridor) > GridWidth

(***************************************************************************)
(* C8                                                                      *)
(***************************************************************************)
\* C8: when are_nodes_connected(start_node, end_node) is false, find_path
\* returns no path and explored_nodes = 0.
C8_NotConnected ==
  (Searched
   /\ ~ are_nodes_connected(nav_data, request.start_node, request.end_node))
    => path_result = [stats |-> [explored_nodes |-> 0], path |-> None]

\* a search between two islands that no link joins
C8_Witness ==
  /\ Searched
  /\ DOMAIN nav_data.boundary_links = {}
  /\ request.start_node.island_id # request.end_node.island_id
  /\ path_result.path = None

(***************************************************************************)
(* C9                                                                      *)
(***************************************************************************)
\* an island segment walks from polygon to neighbouring polygon
WellFormedSegment(segment) ==
  /\ Len(segment.corridor) >= 1
  /\ Len(segment.portal_edge_index) = Len(segment.corridor) - 1
  /\ \A j \in DOMAIN segment.portal_edge_index :
       LET node == NodeRef(segment.island_id, segment.corridor[j]) IN
       /\ segment.portal_edge_index[j] \in ConnectedEdges(node)
       /\ NeighbourAcross(node, segment.portal_edge_index[j])
            = NodeRef(segment.island_id, segment.corridor[j + 1])

\* C9: a returned path has one island segment more than boundary-link
\* segments; each island segment has one portal edge fewer than polygons and
\* each polygon of its corridor is the neighbour of the one before across the
\* recorded edge; link segment k starts at the last node of island segment k,
\* with a link of that node that arrives at the first node of island segment
\* k + 1; the first corridor starts at start_node and the last ends at
\* end_node.
C9_WellFormedPath ==
  Found =>
    /\ Len(FoundPath.island_segments)
         = Len(FoundPath.boundary_link_segments) + 1
    /\ \A k \in DOMAIN FoundPath.island_segments :
         WellFormedSegment(FoundPath.island_segments[k])
    /\ \A k \in DOMAIN FoundPath.boundary_link_segments :
         LET link_segment == FoundPath.boundary_link_segments[k] IN
         /\ link_segment.starting_node
              = LastNode(FoundPath.island_segments[k])
         /\ link_segment.boundary_link
              \in LinksFrom(link_segment.starting_node)
         /\ nav_data.boundary_links[link_segment.boundary_link]
              .destination_node
              = FirstNode(FoundPath.island_segments[k + 1])
    /\ FirstNode(FoundPath.island_segments[1]) = request.start_node
    /\ LastNode(FoundPath.island_segments[Len(FoundPath.island_segments)])
         = request.end_node

\* a path of several polygons on each side of a boundary link
C9_Witness ==
  /\ Found
  /\ Len(FoundPath.boundary_link_segments) = 1
  /\ Len(FoundPath.island_segments[1].corridor) >= 3
  /\ Len(FoundPath.island_segments[2].corridor) = 2

(***************************************************************************)
(* C10                                                                     *)
(***************************************************************************)
\* the problem that find_path hands to the search for the request
RequestProblem ==
  [nav_data |-> nav_data,
   start_node |-> request.start_node,
   end_node |-> request.end_node,
   end_point |-> WorldCenter(nav_data.islands[request.end_node.island_id],
                             request.end_node.polygon_index),
   override_node_type_costs |-> request.override_node_type_costs]

PortalCost(s, id) ==
  LET link == nav_data.boundary_links[id]
      mid == Midpoint(link.portal[1], link.portal[2])
  IN Distance(WorldCenter(nav_data.islands[s.island_id], s.polygon_index), mid)
     + Distance(mid,
         WorldCenter(nav_data.islands[link.destination_node.island_id],
                     link.destination_node.polygon_index))

\* C11: for every node s and every boundary link of s, successors(s) has
\* exactly one step along the link; it costs link.cost, which is the length
\* through the portal whatever the node types, costs and overrides of the
\* two polygons are, and it leads to link.destination_node; successors(s) has
\* no other boundary-link step.
C11_BoundaryLinkCost ==
  Searched =>
    \A s \in Nodes(nav_data) :
      LET next == successors(RequestProblem, s) IN
      /\ \A id \in LinksFrom(s) :
           /\ Cardinality({k \in DOMAIN next :
                             next[k][2] = <<"BoundaryLink", id>>}) = 1
           /\ \E k \in DOMAIN next :
                /\ next[k] = <<nav_data.boundary_links[id].cost,
                               <<"BoundaryLink", id>>,
                               nav_data.boundary_links[id].destination_node>>
                /\ next[k][1] = PortalCost(s, id)
      /\ \A k \in DOMAIN next :
           next[k][2][1] = "BoundaryLink" => next[k][2][2] \in LinksFrom(s)

\* the returned path takes a link into a polygon whose node type has a cost
\* other than 1, by the archipelago or by an override
C11_Witness ==
  /\ Found
  /\ Len(FoundPath.boundary_link_segments) = 1
  /\ CostIn(FirstNode(FoundPath.island_segments[2])) = MaxCost
  /\ "sand" \in DOMAIN request.override_node_type_costs

(***************************************************************************)
(* Part 3.  Path::find_next_point_in_straight_path, path.rs:12-86.         *)
(*                                                                         *)
(* A Path here is [corridor, portal_edge_index] with the corridor a list   *)
(* of NodeRefs, and the nav mesh of an island is what validate returned.   *)
(* A result is Some(<<index, point>>), or None when the call panics on an   *)
(* index out of range.  The funnel only reads signs of areas, so it is      *)
(* exact on whole coordinates.                                              *)
(***************************************************************************)
\* most calls in one collection of a straight path
MaxIterations == 5

\* nav_mesh.rs:240-251: the ends of an edge, (left, right)
get_edge_points(nav_mesh, edge_ref) ==
  LET polygon == At(nav_mesh.polygons, edge_ref.polygon_index)
      left_vertex_index == At(polygon, edge_ref.edge_index)
      right_vertex_index ==
        At(polygon, IF edge_ref.edge_index = Len(polygon) - 1
                    THEN 0 ELSE edge_ref.edge_index + 1)
  IN <<At(nav_mesh.vertices, left_vertex_index),
       At(nav_mesh.vertices, right_vertex_index)>>

\* path.rs:12-35
get_portal_endpoints(path, portal_index, nav) ==
  IF \/ portal_index \notin Indices(path.corridor)
     \/ portal_index \notin Indices(path.portal_edge_index)
  THEN None
  ELSE
    LET node_ref == At(path.corridor, portal_index)
        edge == At(path.portal_edge_index, portal_index)
        island_data == Unwrap(nav.islands[node_ref.island_id].nav_data)
        ends == get_edge_points(island_data.nav_mesh,
                  [polygon_index |-> node_ref.polygon_index,
                   edge_index |-> edge])
    IN Some(<<TransformApply(island_data.transform, ends[1]),
              TransformApply(island_data.transform, ends[2])>>)

\* path.rs:54-57
triangle_area_2(point_0, point_1, point_2) ==
  (point_1[1] - point_0[1]) * (point_2[3] - point_0[3])
    - (point_1[3] - point_0[3]) * (point_2[1] - point_0[1])

\* the portal read whatever the indices are
InitialPortal_AlwaysRead(path, nav, start_index, end_index, end_point) ==
  get_portal_endpoints(path, start_index, nav)

\* path.rs:48-52
InitialPortal(path, nav, start_index, end_index, end_point) ==
  IF start_index = end_index
  THEN Some(<<end_point, end_point>>)
  ELSE get_portal_endpoints(path, start_index, nav)

\* the next portal read also at the end index
NextPortal_AlwaysRead(path, nav, portal_index, end_index, end_point) ==
  get_portal_endpoints(path, portal_index, nav)

\* path.rs:60-64
NextPortal(path, nav, portal_index, end_index, end_point) ==
  IF portal_index = end_index
  THEN Some(<<end_point, end_point>>)
  ELSE get_portal_endpoints(path, portal_index, nav)

\* a funnel whose right side moves also when it crosses the left side
NarrowRight_NeverReturns(apex, funnel, portal_index, portal_right) ==
  IF triangle_area_2(apex, funnel.current_right, portal_right) <= 0
  THEN [returned |-> None,
        funnel |-> [funnel EXCEPT !.right_index = portal_index,
                                  !.current_right = portal_right]]
  ELSE [returned |-> None, funnel |-> funnel]

\* the right side given up as soon as it moves inwards
NarrowRight_ReturnsWhenNarrowing(apex, funnel, portal_index, portal_right) ==
  IF triangle_area_2(apex, funnel.current_right, portal_right) < 0
  THEN [returned |-> Some(<<funnel.left_index, funnel.current_left>>),
        funnel |-> funnel]
  ELSE [returned |-> None, funnel |-> funnel]

\* the right side given up when it comes to lie on the left side
NarrowRight_StrictlyInside(apex, funnel, portal_index, portal_right) ==
  IF triangle_area_2(apex, funnel.current_right, portal_right) <= 0
  THEN IF triangle_area_2(apex, funnel.current_left, portal_right) > 0
       THEN [returned |-> None,
             funnel |-> [funnel EXCEPT !.right_index = portal_index,
                                       !.current_right = portal_right]]
       ELSE [returned |-> Some(<<funnel.left_index, funnel.current_left>>),
             funnel |-> funnel]
  ELSE [returned |-> None, funnel |-> funnel]

\* path.rs:66-73
NarrowRight(apex, funnel, portal_index, portal_right) ==
  IF triangle_area_2(apex, funnel.current_right, portal_right) <= 0
  THEN IF triangle_area_2(apex, funnel.current_left, portal_right) >= 0
       THEN [returned |-> None,
             funnel |-> [funnel EXCEPT !.right_index = portal_index,
                                       !.current_right = portal_right]]
       ELSE [returned |-> Some(<<funnel.left_index, funnel.current_left>>),
             funnel |-> funnel]
  ELSE [returned |-> None, funnel |-> funnel]

\* a funnel whose left side never moves
NarrowLeft_KeepsLeft(apex, funnel, portal_index, portal_left) ==
  IF triangle_area_2(apex, funnel.current_left, portal_left) >= 0
  THEN IF triangle_area_2(apex, funnel.current_right, portal_left) <= 0
       THEN [returned |-> None, funnel |-> funnel]
       ELSE [returned |-> Some(<<funnel.right_index, funnel.current_right>>),
             funnel |-> funnel]
  ELSE [returned |-> None, funnel |-> funnel]

\* path.rs:75-82
NarrowLeft(apex, funnel, portal_index, portal_left) ==
  IF triangle_area_2(apex, funnel.current_left, portal_left) >= 0
  THEN IF triangle_area_2(apex, funnel.current_right, portal_left) <= 0
       THEN [returned |-> None,
             funnel |-> [funnel EXCEPT !.left_index = portal_index,
                                       !.current_left = portal_left]]
       ELSE [returned |-> Some(<<funnel.right_index, funnel.current_right>>),
             funnel |-> funnel]
  ELSE [returned |-> None, funnel |-> funnel]

\* path.rs:59-85
RECURSIVE FunnelLoop(_, _, _, _, _, _, _)
FunnelLoop(path, nav, apex, end_index, end_point, portal_index, funnel) ==
  IF portal_index > end_index
  THEN Some(<<end_index, end_point>>)
  ELSE
    LET portal == NextPortal(path, nav, portal_index, end_index, end_point)
    IN IF portal = None THEN None
       ELSE
         LET right == NarrowRight(apex, funnel, portal_index,
                                  Unwrap(portal)[2])
         IN IF right.returned # None THEN right.returned
            ELSE
              LET left == NarrowLeft(apex, right.funnel, portal_index,
                                     Unwrap(portal)[1])
              IN IF left.returned # None THEN left.returned
                 ELSE FunnelLoop(path, nav, apex, end_index, end_point,
                                 portal_index + 1, left.funnel)

\* path.rs:37-86
find_next_point_in_straight_path(path, nav, start_index, start_point, end_index, end_point) ==
  LET initial == InitialPortal(path, nav, start_index, end_index, end_point)
  IN IF initial = None THEN None
     ELSE FunnelLoop(path, nav, start_point, end_index, end_point,
                     start_index + 1,
                     [left_index |-> start_index,
                      right_index |-> start_index,
                      current_left |-> Unwrap(initial)[1],
                      current_right |-> Unwrap(initial)[2]])

(***************************************************************************)
(* The corridor straight paths are collected in: the zig-zag mesh of       *)
(* finds_next_point_in_zig_zag (path.rs:188-287), in half units.            *)
(***************************************************************************)
Twice(v) == <<2 * v[1], 2 * v[2], 2 * v[3]>>

ZigZagVertices ==
  [k \in 1 .. 28 |->
     Twice(<<<<0, 0, 0>>, <<1, 0, 0>>, <<1, 0, 1>>, <<0, 0, 1>>,
             <<1, 0, 2>>, <<0, 0, 2>>, <<1, 0, 3>>, <<0, 0, 3>>,
             <<1, 0, 4>>, <<0, 0, 4>>, <<1, 0, 5>>, <<2, 0, 4>>,
             <<2, 0, 5>>, <<3, 0, 4>>, <<3, 0, 5>>, <<4, 0, 4>>,
             <<4, 0, 5>>, <<5, 0, 5>>, <<5, 0, 6>>, <<4, 0, 6>>,
             <<5, 0, 7>>, <<4, 0, 7>>, <<4, 0, 8>>, <<-3, 0, 8>>,
             <<-3, 0, 7>>, <<-4, 0, 8>>, <<-3, 0, 15>>, <<-4, 0, 15>>>>[k])]

ZigZagPolygons ==
  <<<<0, 1, 2, 3>>, <<3, 2, 4, 5>>, <<5, 4, 6, 7>>, <<7, 6, 8, 9>>,
    <<9, 8, 10>>, <<10, 8, 11, 12>>, <<12, 11, 13, 14>>, <<14, 13, 15, 16>>,
    <<16, 15, 17>>, <<16, 17, 18, 19>>, <<19, 18, 20, 21>>, <<21, 20, 22>>,
    <<21, 22, 23, 24>>, <<24, 23, 25>>, <<25, 23, 26, 27>>>>

\* the fields of the validated mesh that get_edge_points reads
ZigZagMesh == [vertices |-> ZigZagVertices, polygons |-> ZigZagPolygons]

ZigZagPath ==
  [corridor |-> [k \in 1 .. Len(ZigZagPolygons) |-> NodeRef("a", k - 1)],
   portal_edge_index |-> <<2, 2, 2, 2, 1, 2, 2, 2, 2, 2, 2, 2, 2, 1>>]

\* the island placed as in the test, and moved and turned a quarter
ZigZagTransforms ==
  {[translation |-> Vec3Zero, rotation |-> 0],
   [translation |-> <<6, 0, -2>>, rotation |-> 1]}

ZigZagWorld(transform) ==
  [islands |->
     "a" :> [nav_data |-> Some([transform |-> transform,
                                nav_mesh |-> ZigZagMesh])]]

\* points of a polygon: its corners and the middles of its sides and diagonals
PointsIn(polygon_index) ==
  LET polygon == At(ZigZagPolygons, polygon_index) IN
  {Midpoint(At(ZigZagVertices, polygon[i]), At(ZigZagVertices, polygon[j])) :
     i \in DOMAIN polygon, j \in DOMAIN polygon}

\* start and end of finds_next_point_in_zig_zag, path.rs:275-276
ZigZagStart == <<0, Twice(<<1, 0, 1>>)>>
ZigZagEnd == <<14, <<-7, 0, 28>>>>

\* where a collection starts and ends, in the frame of the island
Waypoints ==
  UNION {{<<i, p>> : p \in PointsIn(i)} : i \in Indices(ZigZagPolygons)}
    \cup {ZigZagEnd}

InWorld(transform, waypoint) ==
  <<waypoint[1], TransformApply(transform, waypoint[2])>>

InitFunnel ==
  /\ mesh = Mesh(None, None, ZigZagVertices, ZigZagPolygons)
  /\ result = NotRun
  /\ \E transform \in ZigZagTransforms :
       /\ nav_data = ZigZagWorld(transform)
       /\ \E start \in Waypoints, end \in Waypoints :
            /\ start[1] <= end[1]
            /\ walk = [path |-> ZigZagPath,
                       start |-> InWorld(transform, start),
                       end |-> InWorld(transform, end),
                       current |-> InWorld(transform, start),
                       straight_path |-> <<>>,
                       panicked |-> FALSE]
  /\ request = None
  /\ path_result = NotRun
  /\ agent = None
  /\ has_reached = NotRun
  /\ query_result = NotRun

\* the walk after one more call from its current waypoint
AfterCall(w) ==
  LET next == find_next_point_in_straight_path(w.path, nav_data,
                w.current[1], w.current[2], w.end[1], w.end[2])
  IN IF next = None
     THEN [w EXCEPT !.panicked = TRUE]
     ELSE [w EXCEPT !.current = Unwrap(next),
                    !.straight_path = Append(@, Unwrap(next))]

\* a first call of find_next_point_in_straight_path, from the start
CallFunnel ==
  /\ walk # None
  /\ walk.straight_path = <<>>
  /\ ~ walk.panicked
  /\ walk' = AfterCall(walk)
  /\ UNCHANGED <<mesh, result, nav_data, request, path_result, agent,
                 has_reached, query_result>>

\* path.rs:112-118: a further turn of the loop of collect_straight_path
ContinueFunnel ==
  /\ walk # None
  /\ walk.straight_path # <<>>
  /\ ~ walk.panicked
  /\ walk.current[1] # walk.end[1]
  /\ Len(walk.straight_path) < MaxIterations
  /\ walk' = AfterCall(walk)
  /\ UNCHANGED <<mesh, result, nav_data, request, path_result, agent,
                 has_reached, query_result>>

NextFunnel == CallFunnel \/ ContinueFunnel

SpecFunnel == InitFunnel /\ [][NextFunnel]_vars

(***************************************************************************)
(* Straight paths: the claims.                                             *)
(***************************************************************************)
WalkTransform == Unwrap(nav_data.islands["a"].nav_data).transform

\* the walk of finds_next_point_in_zig_zag, wherever the island is placed
IsZigZagWalk ==
  /\ walk # None
  /\ walk.start = InWorld(WalkTransform, ZigZagStart)
  /\ walk.end = InWorld(WalkTransform, ZigZagEnd)

\* path.rs:279-285 in half units
ZigZagExpected ==
  <<<<4, Twice(<<1, 0, 4>>)>>, <<8, Twice(<<4, 0, 5>>)>>,
    <<11, Twice(<<4, 0, 7>>)>>, <<13, Twice(<<-3, 0, 8>>)>>, ZigZagEnd>>

WalkFinished ==
  /\ walk # None
  /\ walk.straight_path # <<>>
  /\ walk.current[1] = walk.end[1]

\* C12: on the zig-zag corridor, the calls from (0, (0.5, 0, 0.5)) towards
\* (14, (-3.5, 0, 14)) give the waypoints (4,(1,0,4)), (8,(4,0,5)),
\* (11,(4,0,7)), (13,(-3,0,8)), (14,(-3.5,0,14)) in this order, and the fifth
\* call is the one that reaches the end.
C12_ZigZagWaypoints ==
  IsZigZagWalk =>
    /\ ~ walk.panicked
    /\ Len(walk.straight_path) <= Len(ZigZagExpected)
    /\ \A k \in DOMAIN walk.straight_path :
         walk.straight_path[k] = InWorld(WalkTransform, ZigZagExpected[k])
    /\ WalkFinished <=> Len(walk.straight_path) = Len(ZigZagExpected)

C12_Witness ==
  /\ IsZigZagWalk
  /\ WalkFinished
  /\ Len(walk.straight_path) = 5
  /\ walk.straight_path[1] = <<4, <<2, 0, 8>>>>


\* the first call has been made
Called == walk # None /\ (walk.straight_path # <<>> \/ walk.panicked)

\* the path with its portals taken away: reading any of them panics
WithoutPortals(path) == [path EXCEPT !.portal_edge_index = <<>>]

\* C13: a call with start_index = end_index returns (end_index, end_point)
\* whatever the two points are, and reads no portal: it returns the same on a
\* path that has no portal to read.
C13_StartsAtEndIndex ==
  (Called /\ walk.start[1] = walk.end[1]) =>
    /\ ~ walk.panicked
    /\ walk.straight_path = <<walk.end>>
    /\ find_next_point_in_straight_path(WithoutPortals(walk.path), nav_data,
         walk.start[1], walk.start[2], walk.end[1], walk.end[2])
       = Some(walk.end)

\* in the last node of the corridor, whose index is no portal's index
C13_Witness ==
  /\ Called
  /\ walk.start[1] = Len(walk.path.portal_edge_index)
  /\ walk.start[1] = walk.end[1]
  /\ walk.start[2] # walk.end[2]
  /\ walk.straight_path = <<walk.end>>


\* the portals a call from start_index to end_index goes through
PortalsBetween(path, start_index, end_index) ==
  {Unwrap(get_portal_endpoints(path, k, nav_data)) :
     k \in start_index .. end_index - 1}

\* the segment from the start point to the end point crosses every portal
StraightCorridor ==
  /\ walk # None
  /\ \A portal \in PortalsBetween(walk.path, walk.start[1], walk.end[1]) :
       SegmentsMeet(XZ(walk.start[2]), XZ(walk.end[2]),
                    XZ(portal[1]), XZ(portal[2]))

\* C14: when the segment from start_point to end_point crosses every portal
\* between start_index and end_index, one call returns (end_index, end_point).
C14_StraightCorridor ==
  (Called /\ StraightCorridor) =>
    /\ ~ walk.panicked
    /\ walk.straight_path[1] = walk.end

\* three portals crossed away from their ends
C14_Witness ==
  /\ Called
  /\ StraightCorridor
  /\ walk.end[1] >= walk.start[1] + 3
  /\ \A portal \in PortalsBetween(walk.path, walk.start[1], walk.end[1]) :
       /\ triangle_area_2(walk.start[2], walk.end[2], portal[1]) # 0
       /\ triangle_area_2(walk.start[2], walk.end[2], portal[2]) # 0
  /\ walk.straight_path = <<walk.end>>


(***************************************************************************)
(* Part 4.  Agent::has_reached_target, agent.rs:66-120.                     *)
(* Lengths are sums of square roots: each is carried as a pair of whole    *)
(* numbers of thousandths it lies between, and a comparison that the pair  *)
(* does not settle has no value here.                                      *)
(***************************************************************************)
MaxAhead == 4
Scale == 1000

\* the largest r in lo .. hi with r * r <= n, given lo * lo <= n
RECURSIVE FloorRootIn(_, _, _)
FloorRootIn(n, lo, hi) ==
  IF lo >= hi THEN lo
  ELSE LET mid == (lo + hi + 1) \div 2
       IN IF mid * mid <= n
          THEN FloorRootIn(n, mid, hi)
          ELSE FloorRootIn(n, lo, mid - 1)

\* Vec3::distance, in thousandths, from below and from above
Length(a, b) ==
  LET n == DistanceSquared(a, b) * Scale * Scale
      most == (Abs(a[1] - b[1]) + Abs(a[2] - b[2]) + Abs(a[3] - b[3])) * Scale
      low == FloorRootIn(n, 0, most)
  IN [low |-> low, high |-> IF low * low = n THEN low ELSE low + 1]

LengthAdd(l, m) == [low |-> l.low + m.low, high |-> l.high + m.high]

\* length < distance
LengthLess(l, distance) ==
  IF l.high < distance * Scale THEN TRUE
  ELSE IF l.low >= distance * Scale THEN FALSE
  ELSE CHOOSE settled \in {} : TRUE

\* agent.rs:44-60
create(position, velocity, radius, max_velocity) ==
  [position |-> position,
   velocity |-> velocity,
   radius |-> radius,
   max_velocity |-> max_velocity,
   current_target |-> None,
   target_reached_condition |-> [tag |-> "Distance", distance |-> Some(radius)],
   current_path |-> None,
   current_desired_move |-> Vec3Zero]

\* the distance of a condition: a missing one is the radius of the agent
ConditionDistance(a) ==
  IF a.target_reached_condition.distance = None
  THEN a.radius
  ELSE Unwrap(a.target_reached_condition.distance)

Returned(value) == [kind |-> "Returned", value |-> value]
Panicked == [kind |-> "Panic"]

\* the target counted as reached at exactly the distance
ReachedByDistance_AtTheDistance(a, target_waypoint, distance) ==
  DistanceSquared(a.position, target_waypoint[2]) <= distance * distance

\* agent.rs:73-76
ReachedByDistance(a, target_waypoint, distance) ==
  DistanceSquared(a.position, target_waypoint[2]) < distance * distance

\* the target counted as seen whatever the next waypoint is
ReachedByVisibleAtDistance_AnyWaypoint(a, next_waypoint, target_waypoint, distance) ==
  DistanceSquared(a.position, next_waypoint[2]) < distance * distance

\* agent.rs:77-81
ReachedByVisibleAtDistance(a, next_waypoint, target_waypoint, distance) ==
  /\ next_waypoint[1] = target_waypoint[1]
  /\ DistanceSquared(a.position, next_waypoint[2]) < distance * distance

\* agent.rs:100-115
RECURSIVE StraightPathLoop(_, _, _, _, _, _)
StraightPathLoop(path, nav, current_waypoint, target_waypoint, straight_line_distance, distance) ==
  IF current_waypoint[1] # target_waypoint[1]
     /\ LengthLess(straight_line_distance, distance)
  THEN
    LET next_waypoint ==
          find_next_point_in_straight_path(path, nav,
            current_waypoint[1], current_waypoint[2],
            target_waypoint[1], target_waypoint[2])
    IN IF next_waypoint = None THEN Panicked
       ELSE StraightPathLoop(path, nav, Unwrap(next_waypoint), target_waypoint,
              LengthAdd(straight_line_distance,
                        Length(current_waypoint[2], Unwrap(next_waypoint)[2])),
              distance)
  ELSE Returned(LengthLess(straight_line_distance, distance))

\* agent.rs:82-118
ReachedByStraightPathDistance(a, path, nav, next_waypoint, target_waypoint, distance) ==
  IF DistanceSquared(a.position, target_waypoint[2]) > distance * distance
  THEN Returned(FALSE)
  ELSE IF next_waypoint[1] = target_waypoint[1]
  THEN Returned(TRUE)
  ELSE StraightPathLoop(path, nav, next_waypoint, target_waypoint,
                        Length(a.position, next_waypoint[2]), distance)

\* agent.rs:66-120
has_reached_target(a, path, nav, next_waypoint, target_waypoint) ==
  LET distance == ConditionDistance(a) IN
  CASE a.target_reached_condition.tag = "Distance" ->
         Returned(ReachedByDistance(a, target_waypoint, distance))
    [] a.target_reached_condition.tag = "VisibleAtDistance" ->
         Returned(ReachedByVisibleAtDistance(a, next_waypoint,
                                             target_waypoint, distance))
    [] a.target_reached_condition.tag = "StraightPathDistance" ->
         ReachedByStraightPathDistance(a, path, nav, next_waypoint,
                                       target_waypoint, distance)


(***************************************************************************)
(* Agents on the zig-zag corridor.                                         *)
(***************************************************************************)
Radii == {1, 2}

ConditionTags == {"Distance", "VisibleAtDistance", "StraightPathDistance"}

\* the condition create leaves, or one set afterwards, in half units
Conditions(created) ==
  {created.target_reached_condition}
    \cup {[tag |-> tag, distance |-> distance] :
            tag \in ConditionTags, distance \in {None, Some(4), Some(10)}}

InitAgent ==
  /\ mesh = Mesh(None, None, ZigZagVertices, ZigZagPolygons)
  /\ result = NotRun
  /\ nav_data = ZigZagWorld([translation |-> Vec3Zero, rotation |-> 0])
  /\ request = None
  /\ path_result = NotRun
  /\ walk = None
  /\ \E here \in Waypoints, target \in Waypoints, radius \in Radii :
       LET created == create(here[2], Vec3Zero, radius, 1) IN
       /\ here[1] <= target[1]
       /\ target[1] <= here[1] + MaxAhead
       /\ \E condition \in Conditions(created) :
            agent = [agent |-> [created EXCEPT
                                  !.current_target = Some(target[2]),
                                  !.target_reached_condition = condition],
                     path |-> ZigZagPath,
                     node |-> here[1],
                     next_waypoint |-> None,
                     target_waypoint |-> target]
  /\ has_reached = NotRun
  /\ query_result = NotRun

\* the next waypoint of the agent: the first point of its straight path
NextWaypoint ==
  /\ agent # None
  /\ agent.next_waypoint = None
  /\ LET next == find_next_point_in_straight_path(agent.path, nav_data,
                   agent.node, agent.agent.position,
                   agent.target_waypoint[1], agent.target_waypoint[2])
     IN /\ next # None
        /\ agent' = [agent EXCEPT !.next_waypoint = next]
  /\ UNCHANGED <<mesh, result, nav_data, request, path_result, walk,
                 has_reached, query_result>>

HasReachedTarget ==
  /\ agent # None
  /\ agent.next_waypoint # None
  /\ has_reached = NotRun
  /\ has_reached' = has_reached_target(agent.agent, agent.path, nav_data,
                      Unwrap(agent.next_waypoint), agent.target_waypoint)
  /\ UNCHANGED <<mesh, result, nav_data, request, path_result, walk, agent,
                 query_result>>

NextAgent == NextWaypoint \/ HasReachedTarget

SpecAgent == InitAgent /\ [][NextAgent]_vars

(***************************************************************************)
(* Reaching the target: the claims.                                        *)
(***************************************************************************)
Asked == agent # None /\ has_reached # NotRun

ConditionIs(tag) == agent.agent.target_reached_condition.tag = tag

\* the distance the condition names, or the radius when it names none
AskedDistance ==
  LET condition == agent.agent.target_reached_condition IN
  IF condition.distance = None THEN agent.agent.radius
  ELSE Unwrap(condition.distance)

SquaredToTarget ==
  DistanceSquared(agent.agent.position, agent.target_waypoint[2])

\* C15: with Distance(d) the target is reached exactly when the squared
\* distance from the agent to the target waypoint is below d * d, whatever
\* the next waypoint is; d is the radius when the condition names none, as for
\* an agent whose condition is the one create left.
C15_Distance ==
  (Asked /\ ConditionIs("Distance")) =>
    has_reached = Returned(SquaredToTarget < AskedDistance * AskedDistance)

\* at exactly the distance, and the distance is the radius
C15_Witness ==
  /\ Asked
  /\ ConditionIs("Distance")
  /\ agent.agent.target_reached_condition.distance = None
  /\ SquaredToTarget = agent.agent.radius * agent.agent.radius
  /\ agent.node # agent.target_waypoint[1]
  /\ has_reached = Returned(FALSE)


NextIsTarget == Unwrap(agent.next_waypoint)[1] = agent.target_waypoint[1]

SquaredToNext ==
  DistanceSquared(agent.agent.position, Unwrap(agent.next_waypoint)[2])

\* C16: with VisibleAtDistance(d) the target is reached exactly when the next
\* waypoint has the index of the target waypoint and the squared distance
\* from the agent to the next waypoint is below d * d; when the next waypoint
\* is not the target it is not reached, however close the target is.
C16_VisibleAtDistance ==
  (Asked /\ ConditionIs("VisibleAtDistance")) =>
    /\ has_reached =
         Returned(NextIsTarget
                    /\ SquaredToNext < AskedDistance * AskedDistance)
    /\ ~ NextIsTarget => has_reached = Returned(FALSE)

\* the target is within the distance, behind a corner
C16_Witness ==
  /\ Asked
  /\ ConditionIs("VisibleAtDistance")
  /\ ~ NextIsTarget
  /\ SquaredToTarget < AskedDistance * AskedDistance
  /\ SquaredToNext < AskedDistance * AskedDistance
  /\ has_reached = Returned(FALSE)


\* the length of the straight path from a waypoint on to the target waypoint
RECURSIVE LengthOnwards(_)
LengthOnwards(current_waypoint) ==
  IF current_waypoint[1] = agent.target_waypoint[1]
  THEN [low |-> 0, high |-> 0]
  ELSE LET next == Unwrap(find_next_point_in_straight_path(agent.path,
                     nav_data, current_waypoint[1], current_waypoint[2],
                     agent.target_waypoint[1], agent.target_waypoint[2]))
       IN LengthAdd(Length(current_waypoint[2], next[2]), LengthOnwards(next))

\* agent position -> next waypoint -> the waypoints after it -> target
StraightPathLength ==
  LengthAdd(Length(agent.agent.position, Unwrap(agent.next_waypoint)[2]),
            LengthOnwards(Unwrap(agent.next_waypoint)))

\* C17: with StraightPathDistance(d) the target is not reached when the
\* squared distance from the agent to the target waypoint is above d * d, and
\* otherwise it is reached exactly when the straight path from the agent over
\* the next waypoint and the waypoints after it to the target is shorter
\* than d.
C17_StraightPathDistance ==
  (Asked /\ ConditionIs("StraightPathDistance")) =>
    has_reached =
      Returned(/\ SquaredToTarget <= AskedDistance * AskedDistance
               /\ LengthLess(StraightPathLength, AskedDistance))

\* the next waypoint is the target, exactly the distance away
C17_AtTheDistance ==
  /\ Asked
  /\ ConditionIs("StraightPathDistance")
  /\ NextIsTarget
  /\ SquaredToTarget = AskedDistance * AskedDistance

\* what the code does: as C17 says, except that at exactly the distance with
\* the target as next waypoint it answers that the target is reached
C17_ExceptAtTheDistance ==
  (Asked /\ ConditionIs("StraightPathDistance")) =>
    has_reached =
      Returned(/\ SquaredToTarget <= AskedDistance * AskedDistance
               /\ \/ LengthLess(StraightPathLength, AskedDistance)
                  \/ C17_AtTheDistance)

\* a path around a corner that is too long although the target is near
C17_TooLongAroundCorner ==
  /\ Asked
  /\ ConditionIs("StraightPathDistance")
  /\ ~ NextIsTarget
  /\ SquaredToTarget < AskedDistance * AskedDistance
  /\ has_reached = Returned(FALSE)

\* the target straight ahead, two nodes on and exactly the distance away,
\* answered as reached
C17_ReachedAtTheDistance ==
  /\ C17_AtTheDistance
  /\ agent.agent.position = <<1, 0, 1>>
  /\ agent.target_waypoint = <<2, <<1, 0, 5>>>>
  /\ agent.agent.target_reached_condition.distance = Some(4)
  /\ has_reached = Returned(TRUE)


(***************************************************************************)
(* Part 5.  The queries, query.rs:57-140.                                   *)
(***************************************************************************)
\* CoordinateSystem: 3D with Y up keeps the vector; 2D puts (x, y) on the XZ
\* plane at height 0
to_landmass(cs, point) ==
  IF cs = "TwoD" THEN <<point[1], 0, point[2]>> ELSE point

from_landmass(cs, v) ==
  IF cs = "TwoD" THEN <<v[1], v[3]>> ELSE v

Clamp(x, a, b) == Max2(Min2(a, b), Min2(x, Max2(a, b)))

\* the corners of a node in world space
WorldCorners(nav, node) ==
  LET island_nav_data == Unwrap(nav.islands[node.island_id].nav_data)
      polygon == At(island_nav_data.nav_mesh.polygons, node.polygon_index)
  IN {TransformApply(island_nav_data.transform,
                     At(island_nav_data.nav_mesh.vertices, polygon.vertices[k])) :
        k \in DOMAIN polygon.vertices}

\* the point of a node nearest to a point: the nodes of the worlds here are
\* level rectangles with sides along X and Z
ProjectOnNode(nav, node, point) ==
  LET corners == WorldCorners(nav, node)
      one == CHOOSE c \in corners : TRUE
      other == CHOOSE c \in corners : c[1] # one[1] /\ c[3] # one[3]
  IN <<Clamp(point[1], one[1], other[1]), one[2],
       Clamp(point[3], one[3], other[3])>>

\* island ids in the order they are handed out; an id is never used again
IslandNames == <<"a", "b", "c", "d", "e", "f">>
IslandRank(island_id) ==
  CHOOSE k \in 1 .. Len(IslandNames) : IslandNames[k] = island_id

NodeBefore(m, n) ==
  \/ IslandRank(m.island_id) < IslandRank(n.island_id)
  \/ m.island_id = n.island_id /\ m.polygon_index < n.polygon_index

\* NavigationData::sample_point: the nearest projection within
\* distance_to_node, the first in iteration order among equally near ones
nav_sample_point(nav, point, distance_to_node) ==
  LET near == {n \in Nodes(nav) :
                 DistanceSquared(ProjectOnNode(nav, n, point), point)
                   < distance_to_node * distance_to_node}
      squared(n) == DistanceSquared(ProjectOnNode(nav, n, point), point)
      best == {n \in near : \A m \in near :
                 \/ squared(n) < squared(m)
                 \/ squared(n) = squared(m) /\ (n = m \/ NodeBefore(n, m))}
  IN IF near = {} THEN None
     ELSE LET node_ref == CHOOSE n \in best : TRUE
          IN Some(<<ProjectOnNode(nav, node_ref, point), node_ref>>)

Err(error) == [kind |-> "Err", error |-> error]

\* the dirty test made after the sampling
sample_point_SamplesFirst(archipelago, cs, point, distance_to_node) ==
  LET sampled == nav_sample_point(archipelago.nav_data,
                                  to_landmass(cs, point), distance_to_node)
  IN IF sampled = None THEN Err(<<"OutOfRange">>)
     ELSE IF archipelago.nav_data.dirty THEN Err(<<"NavDataDirty">>)
     ELSE [kind |-> "Ok",
           point |-> from_landmass(cs, Unwrap(sampled)[1]),
           node_ref |-> Unwrap(sampled)[2]]

\* query.rs:57-77
sample_point(archipelago, cs, point, distance_to_node) ==
  IF archipelago.nav_data.dirty THEN Err(<<"NavDataDirty">>)
  ELSE
    LET sampled == nav_sample_point(archipelago.nav_data,
                                    to_landmass(cs, point), distance_to_node)
    IN IF sampled = None THEN Err(<<"OutOfRange">>)
       ELSE [kind |-> "Ok",
             point |-> from_landmass(cs, Unwrap(sampled)[1]),
             node_ref |-> Unwrap(sampled)[2]]


\* PathIndex: a segment of the path and a place in its corridor
from_corridor_index(segment_index, corridor_index) ==
  <<segment_index, corridor_index>>

\* Path::last_index: the last node of the last island segment
last_index(path) ==
  LET n == Len(path.island_segments) IN
  from_corridor_index(n - 1, Len(path.island_segments[n].corridor) - 1)

\* the indices of a path in the order they are walked
PathIndices(path) ==
  UNION {{from_corridor_index(s, k) :
            k \in Indices(At(path.island_segments, s).corridor)} :
         s \in Indices(path.island_segments)}

IndexBefore(i, j) == i[1] < j[1] \/ (i[1] = j[1] /\ i[2] < j[2])

\* the index after one that is not the last
NextIndex(path, index) ==
  IF index[2] + 1 < Len(At(path.island_segments, index[1]).corridor)
  THEN from_corridor_index(index[1], index[2] + 1)
  ELSE from_corridor_index(index[1] + 1, 0)

\* the portal left through at an index: an edge of the node inside an island
\* segment, the portal of the boundary link at the end of one; both run in
\* the direction of the node that is left, as get_edge_points gives them
path_portal_endpoints(path, nav, index) ==
  IF index \notin PathIndices(path) \/ index = last_index(path)
  THEN None
  ELSE
    LET segment == At(path.island_segments, index[1]) IN
    IF index[2] + 1 < Len(segment.corridor)
    THEN Some(WorldEdge(Unwrap(get_island(nav, segment.island_id)),
                [polygon_index |-> At(segment.corridor, index[2]),
                 edge_index |-> At(segment.portal_edge_index, index[2])]))
    ELSE Some(Unwrap(MapGet(nav.boundary_links,
                 At(path.boundary_link_segments, index[1]).boundary_link))
                .portal)

\* the loop of the funnel over the indices of a path
RECURSIVE PathFunnelLoop(_, _, _, _, _, _, _)
PathFunnelLoop(path, nav, apex, end_index, end_point, portal_index, funnel) ==
  LET portal == IF portal_index = end_index
                THEN Some(<<end_point, end_point>>)
                ELSE path_portal_endpoints(path, nav, portal_index)
  IN IF portal = None THEN None
     ELSE
       LET right == NarrowRight(apex, funnel, portal_index, Unwrap(portal)[2])
       IN IF right.returned # None THEN right.returned
          ELSE
            LET left == NarrowLeft(apex, right.funnel, portal_index,
                                   Unwrap(portal)[1])
            IN IF left.returned # None THEN left.returned
               ELSE IF portal_index = end_index
               THEN Some(<<end_index, end_point>>)
               ELSE PathFunnelLoop(path, nav, apex, end_index, end_point,
                                   NextIndex(path, portal_index), left.funnel)

\* Path::find_next_point_in_straight_path over the indices of a path
path_find_next_point(path, nav, start_index, start_point, end_index, end_point) ==
  LET initial == IF start_index = end_index
                 THEN Some(<<end_point, end_point>>)
                 ELSE path_portal_endpoints(path, nav, start_index)
  IN IF initial = None THEN None
     ELSE IF ~ IndexBefore(start_index, end_index)
     THEN Some(<<end_index, end_point>>)
     ELSE PathFunnelLoop(path, nav, start_point, end_index, end_point,
                         NextIndex(path, start_index),
                         [left_index |-> start_index,
                          right_index |-> start_index,
                          current_left |-> Unwrap(initial)[1],
                          current_right |-> Unwrap(initial)[2]])


\* the overrides a loop over the map can meet first and return
NonPositiveOverrides(override_node_type_costs) ==
  {<<node_type, override_node_type_costs[node_type]>> :
     node_type \in {t \in DOMAIN override_node_type_costs :
                      override_node_type_costs[t] <= 0}}

\* query.rs:127-137: the loop that collects the points, given up after as
\* many turns as the path has indices
RECURSIVE CollectPathPoints(_, _, _, _, _, _, _, _, _)
CollectPathPoints(path, nav, cs, current_index, current_point, last, last_point, path_points, turns) ==
  IF current_index = last THEN [kind |-> "Ok", path_points |-> path_points]
  ELSE IF turns = 0 THEN [kind |-> "Diverges"]
  ELSE
    LET next == path_find_next_point(path, nav, current_index, current_point,
                                     last, last_point)
    IN IF next = None THEN [kind |-> "Panic"]
       ELSE CollectPathPoints(path, nav, cs, Unwrap(next)[1], Unwrap(next)[2],
              last, last_point,
              Append(path_points, from_landmass(cs, Unwrap(next)[2])),
              turns - 1)

\* the overrides tested after the search
query_find_path_SearchesFirst(archipelago, cs, start_point, end_point, override_node_type_costs, met) ==
  LET found == find_path(archipelago.nav_data, start_point.node_ref,
                         end_point.node_ref, override_node_type_costs).path
  IN IF found = None THEN Err(<<"NoPathFound">>)
     ELSE IF met # None
     THEN Err(<<"NonPositiveNodeTypeCost", Unwrap(met)[1], Unwrap(met)[2]>>)
     ELSE CollectPathPoints(Unwrap(found), archipelago.nav_data, cs,
            from_corridor_index(0, 0), to_landmass(cs, start_point.point),
            last_index(Unwrap(found)), to_landmass(cs, end_point.point),
            <<start_point.point>>, Cardinality(PathIndices(Unwrap(found))))

\* query.rs:90-140; met is the non-positive override the loop over the
\* HashMap meets first, None when there is none
query_find_path(archipelago, cs, start_point, end_point, override_node_type_costs, met) ==
  IF archipelago.nav_data.dirty THEN [kind |-> "Panic"]
  ELSE IF met # None
  THEN Err(<<"NonPositiveNodeTypeCost", Unwrap(met)[1], Unwrap(met)[2]>>)
  ELSE
    LET found == find_path(archipelago.nav_data, start_point.node_ref,
                           end_point.node_ref, override_node_type_costs).path
    IN IF found = None THEN Err(<<"NoPathFound">>)
       ELSE CollectPathPoints(Unwrap(found), archipelago.nav_data, cs,
              from_corridor_index(0, 0), to_landmass(cs, start_point.point),
              last_index(Unwrap(found)), to_landmass(cs, end_point.point),
              <<start_point.point>>, Cardinality(PathIndices(Unwrap(found))))

(***************************************************************************)
(* The worlds that are queried: the grids of Part 2, clean or dirty.       *)
(***************************************************************************)
QueryWorlds ==
  {World(transform_b, type_indices, 0 :> "sand", 3) :
     transform_b \in {[translation |-> <<GridX(GridWidth), 0, 0>>, rotation |-> 0],
                      [translation |-> <<GridX(GridWidth) + 2, 0, 0>>, rotation |-> 0]},
     type_indices \in {[k \in 1 .. 2 * GridWidth |-> 0],
                       [k \in 1 .. 2 * GridWidth |->
                          IF k \in MiddleCells THEN 1 ELSE 0]}}

\* points with even coordinates and odd distances: no point is exactly the
\* distance away from a node
QueryPoints(cs) ==
  IF cs = "TwoD"
  THEN {<<x, z>> : x \in {-4, 0, 4, 8, 10}, z \in {0, 2}}
  ELSE {<<x, y, z>> : x \in {-4, 0, 4, 8, 10}, y \in {0, 2}, z \in {0, 2}}

QueryDistances == {1, 3}

QueryOverrides ==
  {EmptyMap, "mud" :> 1, ("mud" :> 2) @@ ("sand" :> 0),
   ("mud" :> 0) @@ ("sand" :> -1)}

InitQuery ==
  /\ mesh = Mesh(None, None, GridVertices(GridWidth), GridPolygons(GridWidth))
  /\ result = NotRun
  /\ \E world \in QueryWorlds, dirty \in BOOLEAN :
       nav_data = [nav_data |-> ("dirty" :> dirty) @@ world]
  /\ \E cs \in {"TwoD", "ThreeD"} :
       request \in [coordinate_system : {cs},
                    points : QueryPoints(cs) \X QueryPoints(cs),
                    distance_to_node : QueryDistances,
                    override_node_type_costs : QueryOverrides,
                    sampled : {<<>>}]
  /\ path_result = NotRun
  /\ walk = None
  /\ agent = None
  /\ has_reached = NotRun
  /\ query_result = NotRun

\* one call of query::sample_point, for the start and then for the end
SamplePoint ==
  /\ request # None
  /\ Len(request.sampled) < 2
  /\ request' =
       [request EXCEPT !.sampled =
          Append(@, sample_point(nav_data, request.coordinate_system,
                      request.points[Len(request.sampled) + 1],
                      request.distance_to_node))]
  /\ UNCHANGED <<mesh, result, nav_data, path_result, walk, agent,
                 has_reached, query_result>>

\* one call of query::find_path with the two sampled points
QueryFindPath ==
  /\ request # None
  /\ Len(request.sampled) = 2
  /\ \A k \in 1 .. 2 : request.sampled[k].kind = "Ok"
  /\ query_result = NotRun
  /\ LET bad == NonPositiveOverrides(request.override_node_type_costs) IN
     \E met \in IF bad = {} THEN {None} ELSE {Some(b) : b \in bad} :
       query_result' =
         query_find_path(nav_data, request.coordinate_system,
                         request.sampled[1], request.sampled[2],
                         request.override_node_type_costs, met)
  /\ UNCHANGED <<mesh, result, nav_data, request, path_result, walk, agent,
                 has_reached>>

NextQuery == SamplePoint \/ QueryFindPath

SpecQuery == InitQuery /\ [][NextQuery]_vars


(***************************************************************************)
(* The queries: the claims.                                                *)
(***************************************************************************)
Queried == request # None /\ query_result # NotRun

StartSample == request.sampled[1]
EndSample == request.sampled[2]

SameNode == StartSample.node_ref = EndSample.node_ref

\* C18: whenever find_path returns Ok, for points in different nodes or in
\* the same node, the first point returned is start.point() and the last is
\* end.point().
C18_PathEnds ==
  (Queried /\ query_result.kind = "Ok") =>
    /\ query_result.path_points[1] = StartSample.point
    /\ query_result.path_points[Len(query_result.path_points)]
         = EndSample.point

\* the same between points that lie in different nodes
C18_PathEndsBetweenNodes ==
  (Queried /\ query_result.kind = "Ok" /\ ~ SameNode) =>
    /\ query_result.path_points[1] = StartSample.point
    /\ query_result.path_points[Len(query_result.path_points)]
         = EndSample.point

\* two points of one node: the path returned is the start point alone
C18_SameNodeStartOnly ==
  /\ Queried
  /\ query_result.kind = "Ok"
  /\ SameNode
  /\ StartSample.point # EndSample.point
  /\ query_result.path_points = <<StartSample.point>>


\* what pathfinding gives between the two sampled nodes
PathfinderPath ==
  find_path(nav_data.nav_data, StartSample.node_ref, EndSample.node_ref,
            request.override_node_type_costs).path

\* C19: when some override is not positive, find_path returns
\* NonPositiveNodeTypeCost with such a node type and its cost, also when
\* there is no path between the points; when every override is positive it
\* returns NoPathFound exactly when pathfinding gives no path.
C19_FindPathErrors ==
  Queried =>
    LET bad == {t \in DOMAIN request.override_node_type_costs :
                  request.override_node_type_costs[t] <= 0}
    IN IF bad # {}
       THEN \E t \in bad :
              query_result =
                Err(<<"NonPositiveNodeTypeCost", t,
                      request.override_node_type_costs[t]>>)
       ELSE query_result = Err(<<"NoPathFound">>) <=> PathfinderPath = None

\* a cost of 0 among the overrides and no way from one island to the other
C19_Witness ==
  /\ Queried
  /\ PathfinderPath = None
  /\ ~ are_nodes_connected(nav_data.nav_data, StartSample.node_ref,
                           EndSample.node_ref)
  /\ request.override_node_type_costs = ("mud" :> 2) @@ ("sand" :> 0)
  /\ query_result = Err(<<"NonPositiveNodeTypeCost", "sand", 0>>)

\* every override positive and no way from one island to the other
C19_NoPathFound ==
  /\ Queried
  /\ request.override_node_type_costs = "mud" :> 1
  /\ query_result = Err(<<"NoPathFound">>)


\* the points with whole coordinates of a node, in world space
NodePoints(node) ==
  LET corners == WorldCorners(nav_data.nav_data, node)
      xs == {c[1] : c \in corners}
      ys == {c[2] : c \in corners}
      zs == {c[3] : c \in corners}
      least(s) == CHOOSE a \in s : \A b \in s : a <= b
      most(s) == CHOOSE a \in s : \A b \in s : a >= b
  IN {<<x, y, z>> : x \in least(xs) .. most(xs), y \in ys,
                    z \in least(zs) .. most(zs)}

\* the point asked for in the k-th call, as a vector
AskedPoint(k) == to_landmass(request.coordinate_system, request.points[k])

\* some node has a point within distance_to_node of the point asked for
InRange(k) ==
  \E node \in Nodes(nav_data.nav_data) : \E q \in NodePoints(node) :
    DistanceSquared(q, AskedPoint(k))
      < request.distance_to_node * request.distance_to_node

\* the sample is a point of its node and no point of any node is nearer
NearestOnNode(k) ==
  LET sample == request.sampled[k]
      point == to_landmass(request.coordinate_system, sample.point)
  IN /\ sample.node_ref \in Nodes(nav_data.nav_data)
     /\ point \in NodePoints(sample.node_ref)
     /\ from_landmass(request.coordinate_system, point) = sample.point
     /\ \A node \in Nodes(nav_data.nav_data) : \A q \in NodePoints(node) :
          DistanceSquared(point, AskedPoint(k))
            <= DistanceSquared(q, AskedPoint(k))

\* C20: sample_point returns NavDataDirty whenever the navigation data is
\* dirty, in range or not; when it is not dirty it returns OutOfRange exactly
\* when no polygon is within distance_to_node of the point, and otherwise Ok
\* with the sampled point and the node it is on.
C20_SamplePoint ==
  request # None =>
    \A k \in DOMAIN request.sampled :
      IF nav_data.nav_data.dirty
      THEN request.sampled[k] = Err(<<"NavDataDirty">>)
      ELSE IF ~ InRange(k)
      THEN request.sampled[k] = Err(<<"OutOfRange">>)
      ELSE request.sampled[k].kind = "Ok" /\ NearestOnNode(k)

\* dirty, asked for a point that is out of range and for one that is in range
C20_Witness ==
  /\ request # None
  /\ Len(request.sampled) = 2
  /\ nav_data.nav_data.dirty
  /\ ~ InRange(1)
  /\ InRange(2)
  /\ request.sampled = <<Err(<<"NavDataDirty">>), Err(<<"NavDataDirty">>)>>

\* clean, one point out of range and one sampled off the node it is above
C20_OutOfRangeAndSampled ==
  /\ request # None
  /\ Len(request.sampled) = 2
  /\ ~ nav_data.nav_data.dirty
  /\ request.sampled[1] = Err(<<"OutOfRange">>)
  /\ request.sampled[2].kind = "Ok"
  /\ request.sampled[2].point # request.points[2]

(***************************************************************************)
(* Part 6: an archipelago over time.                                       *)
(*                                                                         *)
(* island.rs gives the island: its navigation data and its dirty flag.     *)
(* The archipelago that holds the islands, its navigation data and its     *)
(* update are described in the specification (sections 3, 4.3 and 4.8).    *)
(* In this part the variable nav_data holds the archipelago, request the   *)
(* record of what was changed since the last update, and query_result the  *)
(* answer of the last query.                                               *)
(***************************************************************************)

\* the islands an archipelago is ever given
MaxIslandIds == 2

Restrict(map, keys) == [key \in keys |-> map[key]]

\* island.rs:37-43
Island_new == [nav_data |-> None, dirty |-> TRUE]

\* set_nav_mesh leaving the dirty flag as it was
set_nav_mesh_KeepsDirty(island, transform, nav_mesh, type_index_to_node_type) ==
  [island EXCEPT
     !.nav_data = Some([transform |-> transform,
                        nav_mesh |-> nav_mesh,
                        type_index_to_node_type |-> type_index_to_node_type])]

\* island.rs:56-67, with the node types of the polygons as the call at
\* lib.rs:478-485 passes them
set_nav_mesh(island, transform, nav_mesh, type_index_to_node_type) ==
  [island EXCEPT
     !.nav_data = Some([transform |-> transform,
                        nav_mesh |-> nav_mesh,
                        type_index_to_node_type |-> type_index_to_node_type]),
     !.dirty = TRUE]

\* island.rs:71-74
clear_nav_mesh(island) == [island EXCEPT !.nav_data = None, !.dirty = TRUE]

\* island.rs:51-53
get_nav_mesh(island) ==
  IF island.nav_data = None THEN None
  ELSE Some(Unwrap(island.nav_data).nav_mesh)

\* island.rs:46-48
get_transform(island) ==
  IF island.nav_data = None THEN None
  ELSE Some(Unwrap(island.nav_data).transform)

\* Archipelago::new: no island, no node type, no agent
NewArchipelago ==
  [nav_data |-> [islands |-> EmptyMap,
                 dirty |-> FALSE,
                 deleted_islands |-> {},
                 boundary_links |-> EmptyMap,
                 node_to_boundary_link_ids |-> EmptyMap,
                 node_type_to_cost |-> EmptyMap],
   agents |-> EmptyMap,
   island_ids |-> 0,
   agent_ids |-> 0,
   node_types |-> 0]

\* the dirty flag of the navigation data, derived from the islands: one of
\* them is dirty, or one was removed
DeriveDirty(archipelago) ==
  [archipelago EXCEPT
     !.nav_data.dirty =
       \/ archipelago.nav_data.deleted_islands # {}
       \/ \E i \in DOMAIN archipelago.nav_data.islands :
            archipelago.nav_data.islands[i].dirty]

\* the id Archipelago::add_island gives the new island
NextIslandId(archipelago) == IslandNames[archipelago.island_ids + 1]

\* Archipelago::add_island
add_island(archipelago) ==
  DeriveDirty([archipelago EXCEPT
     !.nav_data.islands = (NextIslandId(archipelago) :> Island_new) @@ @,
     !.island_ids = @ + 1])

\* Archipelago::remove_island
remove_island(archipelago, island_id) ==
  DeriveDirty([archipelago EXCEPT
     !.nav_data.islands = Restrict(@, DOMAIN @ \ {island_id}),
     !.nav_data.deleted_islands = @ \cup {island_id}])

\* Archipelago::get_island_mut, then a change of the island
WithIsland(archipelago, island_id, island) ==
  DeriveDirty([archipelago EXCEPT !.nav_data.islands[island_id] = island])

\* the islands whose boundary links are purged by the next update
InvalidatedIslands(nav) ==
  nav.deleted_islands \cup {i \in DOMAIN nav.islands : nav.islands[i].dirty}

\* Section 4.3: the links of changed islands are purged and built again, and
\* the dirty flags cleared.  Links depend on the two islands only, so the
\* links that are kept are those building all of them gives.
\* body of a value that is computed once
With(value, body(_)) == CHOOSE r \in {body(v) : v \in {value}} : TRUE

update_nav_data(nav) ==
  IF ~ nav.dirty THEN nav
  ELSE
    LET islands == [i \in DOMAIN nav.islands |->
                      [nav.islands[i] EXCEPT !.dirty = FALSE]]
        built == NavigationData(islands, nav.node_type_to_cost)
    IN [islands |-> islands,
        dirty |-> FALSE,
        deleted_islands |-> {},
        boundary_links |-> built.boundary_links,
        node_to_boundary_link_ids |-> built.node_to_boundary_link_ids,
        node_type_to_cost |-> nav.node_type_to_cost]
\* how far from a node an agent or a target may be and still be on it
SnapDistance == 1

\* an agent of the archipelago: Agent::create, then its state and its
\* node-type cost overrides
NewAgent(position, radius, max_velocity) ==
  ("state" :> "Idle") @@ ("override_node_type_costs" :> EmptyMap)
    @@ create(position, Vec3Zero, radius, max_velocity)

\* Archipelago::add_agent
NextAgentId(archipelago) == archipelago.agent_ids + 1
add_agent(archipelago, new_agent) ==
  [archipelago EXCEPT
     !.agents = (NextAgentId(archipelago) :> new_agent) @@ @,
     !.agent_ids = @ + 1]

\* Archipelago::remove_agent
remove_agent(archipelago, agent_id) ==
  [archipelago EXCEPT !.agents = Restrict(@, DOMAIN @ \ {agent_id})]

\* the node at an index of a path
NodeAtIndex(path, index) ==
  LET segment == At(path.island_segments, index[1]) IN
  NodeRef(segment.island_id, At(segment.corridor, index[2]))

\* the islands and the boundary links a path goes through
PathIslands(path) ==
  {path.island_segments[s].island_id : s \in DOMAIN path.island_segments}
PathLinks(path) ==
  {path.boundary_link_segments[s].boundary_link :
     s \in DOMAIN path.boundary_link_segments}

\* the first index of a path that is at a node
IndexOfNode(path, node) ==
  LET at == {i \in PathIndices(path) : NodeAtIndex(path, i) = node} IN
  IF at = {} THEN None
  ELSE Some(CHOOSE i \in at : \A j \in at : i = j \/ IndexBefore(i, j))

\* a path without what is before an index
TrimPath(path, index) ==
  LET segment == At(path.island_segments, index[1])
      trimmed ==
        [segment EXCEPT
           !.corridor = SubSeq(@, index[2] + 1, Len(@)),
           !.portal_edge_index = SubSeq(@, index[2] + 1, Len(@))]
  IN [island_segments |->
        <<trimmed>> \o SubSeq(path.island_segments, index[1] + 2,
                              Len(path.island_segments)),
      boundary_link_segments |->
        SubSeq(path.boundary_link_segments, index[1] + 1,
               Len(path.boundary_link_segments))]

\* a path kept whatever happened to its islands
RepairPath_KeepsInvalidated(current_path, start_node, end_node, invalidated) ==
  IF current_path = None THEN None
  ELSE
    LET path == Unwrap(current_path)
        start_index == IndexOfNode(path, start_node)
    IN IF start_index = None \/ NodeAtIndex(path, last_index(path)) # end_node
       THEN None
       ELSE Some(TrimPath(path, Unwrap(start_index)))

\* Section 4.8, step 3: the path is kept, without what was walked, when no
\* island of it was changed or removed and it contains the node of the agent
\* and ends at the node of the target
RepairPath(current_path, start_node, end_node, invalidated) ==
  IF current_path = None THEN None
  ELSE
    LET path == Unwrap(current_path)
        start_index == IndexOfNode(path, start_node)
    IN IF \/ PathIslands(path) \cap invalidated # {}
          \/ start_index = None
          \/ NodeAtIndex(path, last_index(path)) # end_node
       THEN None
       ELSE Some(TrimPath(path, Unwrap(start_index)))

\* path.rs:20-31: what the funnel expects of the path it is run on, for an
\* island segment; and the same of the boundary links between the segments
PathIsStillValid(path, nav) ==
  /\ \A s \in DOMAIN path.island_segments :
       LET segment == path.island_segments[s] IN
       /\ segment.island_id \in DOMAIN nav.islands
       /\ nav.islands[segment.island_id].nav_data # None
       /\ LET polygons ==
                Unwrap(nav.islands[segment.island_id].nav_data).nav_mesh
                  .polygons
          IN /\ \A k \in DOMAIN segment.corridor :
                  segment.corridor[k] \in Indices(polygons)
             /\ \A k \in DOMAIN segment.portal_edge_index :
                  segment.portal_edge_index[k]
                    \in Indices(At(polygons, segment.corridor[k]).vertices)
  /\ \A s \in DOMAIN path.boundary_link_segments :
       path.boundary_link_segments[s].boundary_link
         \in DOMAIN nav.boundary_links

\* a velocity: a direction, not normalized, and a speed along it
Velocity(direction, speed) == [direction |-> direction, speed |-> speed]
Vec3Sub(a, b) == <<a[1] - b[1], a[2] - b[2], a[3] - b[3]>>

Stopped(a, state) ==
  [a EXCEPT !.current_path = None,
            !.current_desired_move = Velocity(Vec3Zero, 0),
            !.state = state]

\* Section 4.8, steps 2 to 7 for one agent.  The agent is alone: what the
\* avoidance gives is the preferred velocity.
UpdateAgent(a, nav, invalidated) ==
  IF a.current_target = None THEN Stopped(a, "Idle")
  ELSE
    With(<<nav_sample_point(nav, a.position, SnapDistance),
           nav_sample_point(nav, Unwrap(a.current_target), SnapDistance)>>,
    LAMBDA sampled :
    LET start == sampled[1]
        end == sampled[2]
    IN IF start = None THEN Stopped(a, "AgentNotOnNavMesh")
       ELSE IF end = None THEN Stopped(a, "TargetNotOnNavMesh")
       ELSE
         With(LET kept == RepairPath(a.current_path, Unwrap(start)[2],
                                     Unwrap(end)[2], invalidated)
              IN IF kept # None THEN kept
                 ELSE find_path(nav, Unwrap(start)[2], Unwrap(end)[2],
                                a.override_node_type_costs).path,
         LAMBDA current_path :
         IF current_path = None THEN Stopped(a, "NoPath")
         ELSE IF ~ PathIsStillValid(Unwrap(current_path), nav)
         THEN [a EXCEPT !.current_path = current_path, !.state = "Panic"]
         ELSE
           LET path == Unwrap(current_path)
               target_waypoint == <<last_index(path), Unwrap(end)[1]>>
           IN With(Unwrap(path_find_next_point(path, nav,
                     from_corridor_index(0, 0), Unwrap(start)[1],
                     target_waypoint[1], target_waypoint[2])),
              LAMBDA next_waypoint :
              IF has_reached_target(a, path, nav, next_waypoint,
                                    target_waypoint).value
              THEN [a EXCEPT !.current_path = current_path,
                             !.current_desired_move = Velocity(Vec3Zero, 0),
                             !.state = "ReachedTarget"]
              ELSE [a EXCEPT
                      !.current_path = current_path,
                      !.current_desired_move =
                        Velocity(Vec3Sub(next_waypoint[2], a.position),
                                 a.max_velocity),
                      !.state = "Moving"])))

\* an update that moves every agent to its next waypoint
update_MovesAgents(archipelago, delta_time) ==
  With(<<update_nav_data(archipelago.nav_data),
         InvalidatedIslands(archipelago.nav_data)>>,
  LAMBDA rebuilt :
  [archipelago EXCEPT
     !.nav_data = rebuilt[1],
     !.agents =
       [id \in DOMAIN archipelago.agents |->
          With(UpdateAgent(archipelago.agents[id], rebuilt[1], rebuilt[2]),
          LAMBDA a :
          IF a.state = "Moving"
          THEN [a EXCEPT !.position =
                  Vec3Add(@, a.current_desired_move.direction)]
          ELSE a)]])

\* Archipelago::update (Section 4.8): the boundary links, then every agent
update(archipelago, delta_time) ==
  With(<<update_nav_data(archipelago.nav_data),
         InvalidatedIslands(archipelago.nav_data)>>,
  LAMBDA rebuilt :
  [archipelago EXCEPT
     !.nav_data = rebuilt[1],
     !.agents = [id \in DOMAIN archipelago.agents |->
                   UpdateAgent(archipelago.agents[id], rebuilt[1],
                               rebuilt[2])]])
(***************************************************************************)
(* The archipelagos that are run: one agent, and islands that are added,   *)
(* given one of two navigation meshes at one of three places, cleared and  *)
(* removed.  Coordinates are in half units.  The first mesh is the unit    *)
(* square of debug_test.rs:414-427 (XYZ there, the height second here);    *)
(* the second is a cell two units long and a unit square behind it.        *)
(***************************************************************************)
UnitSquareVertices == <<Twice(<<1, 1, 1>>), Twice(<<2, 1, 1>>),
                        Twice(<<2, 1, 2>>), Twice(<<1, 1, 2>>)>>
UnitSquare ==
  ValidNavigationMesh(
    validate(Mesh(None, None, UnitSquareVertices, <<<<0, 1, 2, 3>>>>)),
    <<0>>)

TwoCells ==
  ValidNavigationMesh(
    validate(Mesh(None, None,
      <<Twice(<<1, 1, 1>>), Twice(<<3, 1, 1>>), Twice(<<4, 1, 1>>),
        Twice(<<4, 1, 2>>), Twice(<<3, 1, 2>>), Twice(<<1, 1, 2>>)>>,
      <<<<0, 1, 4, 5>>, <<1, 2, 3, 4>>>>)),
    <<0, 0>>)

IslandMeshes == {UnitSquare, TwoCells}

\* in place, one unit along X (debug_test.rs:436) and two units along X
IslandTransforms ==
  {[translation |-> Twice(<<k, 0, 0>>), rotation |-> 0] : k \in 0 .. 2}

\* places on the islands, in half units
AgentPositions == {<<3, 2, 3>>, <<5, 2, 3>>, <<7, 2, 3>>}
AgentTargets == {<<7, 2, 3>>}

\* points asked for: on the square in place, and far from every island
SampledPoints == {<<3, 2, 3>>, <<3, 2, 31>>}

\* what was changed since the last update and whether there was an update;
\* whether the update just made met a path through a changed or removed
\* island, and whether it came after an update with nothing changed between
Changes(islands_changed, agents_changed, updated, met_invalidated, again) ==
  [islands_changed |-> islands_changed,
   agents_changed |-> agents_changed,
   updated |-> updated,
   met_invalidated |-> met_invalidated,
   again |-> again]

IslandsChanged ==
  Changes(TRUE, request.agents_changed, request.updated, FALSE, FALSE)
AgentsChanged ==
  Changes(request.islands_changed, TRUE, request.updated, FALSE, FALSE)

HasInvalidatedPath(archipelago) ==
  \E id \in DOMAIN archipelago.agents :
    /\ archipelago.agents[id].current_path # None
    /\ PathIslands(Unwrap(archipelago.agents[id].current_path))
         \cap InvalidatedIslands(archipelago.nav_data) # {}

\* the id of the agent that is added first
TheAgent == NextAgentId(NewArchipelago)

InitArchipelago ==
  /\ mesh = Mesh(None, None, UnitSquareVertices, <<<<0, 1, 2, 3>>>>)
  /\ result = NotRun
  /\ \E position \in AgentPositions, target \in AgentTargets :
       nav_data =
         add_agent(NewArchipelago,
           [NewAgent(position, 1, 1) EXCEPT !.current_target = Some(target)])
  /\ request = Changes(FALSE, TRUE, FALSE, FALSE, FALSE)
  /\ path_result = NotRun
  /\ walk = None
  /\ agent = None
  /\ has_reached = NotRun
  /\ query_result = NotRun

\* Archipelago::add_island
AddIsland ==
  /\ nav_data.island_ids < MaxIslandIds
  /\ nav_data' = add_island(nav_data)
  /\ request' = IslandsChanged
  /\ query_result' = NotRun
  /\ UNCHANGED <<mesh, result, path_result, walk, agent, has_reached>>

\* Archipelago::remove_island
RemoveIsland ==
  /\ \E island_id \in DOMAIN nav_data.nav_data.islands :
       nav_data' = remove_island(nav_data, island_id)
  /\ request' = IslandsChanged
  /\ query_result' = NotRun
  /\ UNCHANGED <<mesh, result, path_result, walk, agent, has_reached>>

\* Island::set_nav_mesh on an island of the archipelago
SetNavMesh ==
  /\ \E island_id \in DOMAIN nav_data.nav_data.islands,
        transform \in IslandTransforms, nav_mesh \in IslandMeshes :
       nav_data' =
         WithIsland(nav_data, island_id,
           set_nav_mesh(nav_data.nav_data.islands[island_id], transform,
                        nav_mesh, EmptyMap))
  /\ request' = IslandsChanged
  /\ query_result' = NotRun
  /\ UNCHANGED <<mesh, result, path_result, walk, agent, has_reached>>

\* Island::clear_nav_mesh on an island of the archipelago
ClearNavMesh ==
  /\ \E island_id \in DOMAIN nav_data.nav_data.islands :
       nav_data' =
         WithIsland(nav_data, island_id,
           clear_nav_mesh(nav_data.nav_data.islands[island_id]))
  /\ request' = IslandsChanged
  /\ query_result' = NotRun
  /\ UNCHANGED <<mesh, result, path_result, walk, agent, has_reached>>

\* the agent is somewhere else
MoveAgent ==
  /\ \E position \in AgentPositions \ {nav_data.agents[TheAgent].position} :
       nav_data' = [nav_data EXCEPT !.agents[TheAgent].position = position]
  /\ request' = AgentsChanged
  /\ query_result' = NotRun
  /\ UNCHANGED <<mesh, result, path_result, walk, agent, has_reached>>

\* Archipelago::update
Update ==
  /\ nav_data' = update(nav_data, 1)
  /\ request' = Changes(FALSE, FALSE, TRUE, HasInvalidatedPath(nav_data),
                      /\ request.updated
                      /\ ~ request.islands_changed
                      /\ ~ request.agents_changed)
  /\ query_result' = NotRun
  /\ UNCHANGED <<mesh, result, path_result, walk, agent, has_reached>>

\* query::sample_point
SampleArchipelago ==
  /\ query_result = NotRun
  /\ \E point \in SampledPoints :
       query_result' = sample_point(nav_data, "ThreeD", point, SnapDistance)
  /\ UNCHANGED <<mesh, result, nav_data, request, path_result, walk, agent,
                 has_reached>>

NextArchipelago ==
  \/ AddIsland
  \/ RemoveIsland
  \/ SetNavMesh
  \/ ClearNavMesh
  \/ MoveAgent
  \/ Update
  \/ SampleArchipelago

SpecArchipelago == InitArchipelago /\ [][NextArchipelago]_vars

\* C21: after an island is added, removed, given a navigation mesh or
\* cleared, the navigation data is dirty and sample_point answers
\* NavDataDirty until the next update; the update clears the dirty flags,
\* and until an island is changed again sample_point never answers
\* NavDataDirty.
C21_DirtyUntilUpdate ==
  /\ nav_data.nav_data.dirty = request.islands_changed
  /\ ~ request.islands_changed =>
       \A i \in DOMAIN nav_data.nav_data.islands :
         ~ nav_data.nav_data.islands[i].dirty
  /\ query_result # NotRun =>
       (query_result = Err(<<"NavDataDirty">>)) = request.islands_changed

\* sample_point answers NavDataDirty for an island changed after an update
C21_Witness ==
  /\ request.updated
  /\ request.islands_changed
  /\ query_result = Err(<<"NavDataDirty">>)

\* sample_point answers with a point on an island after an update
C21_SampledAfterUpdate ==
  /\ request.updated
  /\ ~ request.islands_changed
  /\ query_result # NotRun
  /\ query_result.kind = "Ok"

(***************************************************************************)
(* The node types of an archipelago.  lib.rs:233-266 hands add_node_type,  *)
(* set_node_type_cost, get_node_type_cost and remove_node_type to the      *)
(* archipelago of landmass; what they do there is described in the         *)
(* specification (section 5).  A call gives the archipelago after it and   *)
(* what it returned.                                                       *)
(***************************************************************************)

\* the node types an archipelago is ever given
MaxNodeTypes == 2

\* node types in the order they are handed out; the last is never handed out
NodeTypeNames == <<"t1", "t2", "t3", "t4", "t5">>
NextNodeType(archipelago) == NodeTypeNames[archipelago.node_types + 1]
NodeTypesHandedOut(archipelago) ==
  {NodeTypeNames[k] : k \in 1 .. archipelago.node_types}

CallResult(archipelago, returned) ==
  [archipelago |-> archipelago, returned |-> returned]

\* add_node_type taking any cost
add_node_type_AnyCost(archipelago, cost) ==
  CallResult([archipelago EXCEPT
            !.nav_data.node_type_to_cost =
              (NextNodeType(archipelago) :> cost) @@ @,
            !.node_types = @ + 1],
         [kind |-> "Ok", node_type |-> NextNodeType(archipelago)])

\* Archipelago::add_node_type
add_node_type(archipelago, cost) ==
  IF cost <= 0
  THEN CallResult(archipelago, Err(<<"NonPositiveCost", cost>>))
  ELSE CallResult([archipelago EXCEPT
                 !.nav_data.node_type_to_cost =
                   (NextNodeType(archipelago) :> cost) @@ @,
                 !.node_types = @ + 1],
              [kind |-> "Ok", node_type |-> NextNodeType(archipelago)])

\* Archipelago::set_node_type_cost
set_node_type_cost(archipelago, node_type, cost) ==
  IF cost <= 0
  THEN CallResult(archipelago, Err(<<"NonPositiveCost", cost>>))
  ELSE IF node_type \notin DOMAIN archipelago.nav_data.node_type_to_cost
  THEN CallResult(archipelago, Err(<<"NodeTypeDoesNotExist", node_type>>))
  ELSE CallResult([archipelago EXCEPT
                 !.nav_data.node_type_to_cost[node_type] = cost],
              [kind |-> "Ok"])

\* the node types the islands give their polygons
UsedNodeTypes(archipelago) ==
  UNION {LET type_index_to_node_type ==
               Unwrap(archipelago.nav_data.islands[i].nav_data)
                 .type_index_to_node_type
         IN {type_index_to_node_type[k] : k \in DOMAIN type_index_to_node_type} :
         i \in {j \in DOMAIN archipelago.nav_data.islands :
                  archipelago.nav_data.islands[j].nav_data # None}}

\* remove_node_type not looking at the islands
remove_node_type_WhileUsed(archipelago, node_type) ==
  IF node_type \notin DOMAIN archipelago.nav_data.node_type_to_cost
  THEN CallResult(archipelago, FALSE)
  ELSE CallResult([archipelago EXCEPT
                 !.nav_data.node_type_to_cost =
                   Restrict(@, DOMAIN @ \ {node_type})],
              TRUE)

\* Archipelago::remove_node_type
remove_node_type(archipelago, node_type) ==
  IF \/ node_type \notin DOMAIN archipelago.nav_data.node_type_to_cost
     \/ node_type \in UsedNodeTypes(archipelago)
  THEN CallResult(archipelago, FALSE)
  ELSE CallResult([archipelago EXCEPT
                 !.nav_data.node_type_to_cost =
                   Restrict(@, DOMAIN @ \ {node_type})],
              TRUE)

\* lib.rs:257-259
archipelago_get_node_type_cost(archipelago, node_type) ==
  get_node_type_cost(archipelago.nav_data, node_type)

(***************************************************************************)
(* The archipelagos whose node types are changed: the islands are given    *)
(* the unit square in place, with its polygon of the default node type or  *)
(* of a node type of the archipelago.                                      *)
(***************************************************************************)
NodeTypeCosts == {-1, 0, 1, 2}

\* a node type handed out or not, or the one that never is
AskedNodeTypes ==
  {NodeTypeNames[k] : k \in 1 .. MaxNodeTypes} \cup
  {NodeTypeNames[Len(NodeTypeNames)]}

\* the last call: what was called with what, what it returned, and the node
\* types and their costs before it
Call(op, node_type, cost, returned) ==
  [op |-> op, node_type |-> node_type, cost |-> cost, returned |-> returned,
   before |-> nav_data.nav_data.node_type_to_cost,
   handed_out |-> NodeTypesHandedOut(nav_data)]

InitNodeTypes ==
  /\ mesh = Mesh(None, None, UnitSquareVertices, <<<<0, 1, 2, 3>>>>)
  /\ result = NotRun
  /\ nav_data = NewArchipelago
  /\ request = [op |-> "new", node_type |-> None, cost |-> None,
                returned |-> None, before |-> EmptyMap, handed_out |-> {}]
  /\ path_result = NotRun
  /\ walk = None
  /\ agent = None
  /\ has_reached = NotRun
  /\ query_result = NotRun

\* lib.rs:238-243
AddNodeType ==
  /\ nav_data.node_types < MaxNodeTypes
  /\ \E cost \in NodeTypeCosts :
       LET called == add_node_type(nav_data, cost) IN
       /\ nav_data' = called.archipelago
       /\ request' = Call("add_node_type", None, cost, called.returned)
  /\ UNCHANGED <<mesh, result, path_result, walk, agent, has_reached,
                 query_result>>

\* lib.rs:247-253
SetNodeTypeCost ==
  /\ \E node_type \in AskedNodeTypes, cost \in NodeTypeCosts :
       LET called == set_node_type_cost(nav_data, node_type, cost) IN
       /\ nav_data' = called.archipelago
       /\ request' = Call("set_node_type_cost", Some(node_type), cost,
                          called.returned)
  /\ UNCHANGED <<mesh, result, path_result, walk, agent, has_reached,
                 query_result>>

\* lib.rs:257-259
GetNodeTypeCost ==
  /\ \E node_type \in AskedNodeTypes :
       request' = Call("get_node_type_cost", Some(node_type), None,
                       archipelago_get_node_type_cost(nav_data, node_type))
  /\ UNCHANGED <<mesh, result, nav_data, path_result, walk, agent,
                 has_reached, query_result>>

\* lib.rs:264-266
RemoveNodeType ==
  /\ \E node_type \in AskedNodeTypes :
       LET called == remove_node_type(nav_data, node_type) IN
       /\ nav_data' = called.archipelago
       /\ request' = Call("remove_node_type", Some(node_type), None,
                          called.returned)
  /\ UNCHANGED <<mesh, result, path_result, walk, agent, has_reached,
                 query_result>>

\* Archipelago::add_island
AddTypedIsland ==
  /\ nav_data.island_ids < MaxIslandIds
  /\ nav_data' = add_island(nav_data)
  /\ request' = Call("add_island", None, None, None)
  /\ UNCHANGED <<mesh, result, path_result, walk, agent, has_reached,
                 query_result>>

\* Island::set_nav_mesh with the node type of the polygon
SetTypedNavMesh ==
  /\ \E island_id \in DOMAIN nav_data.nav_data.islands,
        type_index_to_node_type \in
          {EmptyMap} \cup
          {0 :> t : t \in DOMAIN nav_data.nav_data.node_type_to_cost} :
       nav_data' =
         WithIsland(nav_data, island_id,
           set_nav_mesh(nav_data.nav_data.islands[island_id],
                        [translation |-> Vec3Zero, rotation |-> 0],
                        UnitSquare, type_index_to_node_type))
  /\ request' = Call("set_nav_mesh", None, None, None)
  /\ UNCHANGED <<mesh, result, path_result, walk, agent, has_reached,
                 query_result>>

\* Island::clear_nav_mesh
ClearTypedNavMesh ==
  /\ \E island_id \in DOMAIN nav_data.nav_data.islands :
       /\ nav_data.nav_data.islands[island_id].nav_data # None
       /\ nav_data' =
            WithIsland(nav_data, island_id,
              clear_nav_mesh(nav_data.nav_data.islands[island_id]))
  /\ request' = Call("clear_nav_mesh", None, None, None)
  /\ UNCHANGED <<mesh, result, path_result, walk, agent, has_reached,
                 query_result>>

NextNodeTypes ==
  \/ AddNodeType
  \/ SetNodeTypeCost
  \/ GetNodeTypeCost
  \/ RemoveNodeType
  \/ AddTypedIsland
  \/ SetTypedNavMesh
  \/ ClearTypedNavMesh

SpecNodeTypes == InitNodeTypes /\ [][NextNodeTypes]_vars

NodeTypeToCost == nav_data.nav_data.node_type_to_cost

\* C22: add_node_type with a cost of 0 or less returns an error and leaves
\* the node types as they were; with a positive cost it returns a node type
\* that was never handed out by this archipelago, whose cost is the cost
\* given, and leaves the other node types as they were.  A cost changes in
\* set_node_type_cost only, and set_node_type_cost given a node type that
\* is not of the archipelago or a cost of 0 or less returns an error and
\* leaves the costs as they were.
C22_NodeTypeCosts ==
  /\ request.op = "add_node_type" /\ request.cost <= 0 =>
       /\ request.returned.kind = "Err"
       /\ NodeTypeToCost = request.before
  /\ request.op = "add_node_type" /\ request.cost > 0 =>
       /\ request.returned.kind = "Ok"
       /\ request.returned.node_type \notin request.handed_out
       /\ request.returned.node_type \notin DOMAIN request.before
       /\ archipelago_get_node_type_cost(nav_data, request.returned.node_type)
            = Some(request.cost)
       /\ DOMAIN NodeTypeToCost
            = DOMAIN request.before \cup {request.returned.node_type}
  /\ request.op # "set_node_type_cost" =>
       \A t \in DOMAIN request.before \cap DOMAIN NodeTypeToCost :
         NodeTypeToCost[t] = request.before[t]
  /\ request.op = "set_node_type_cost" =>
       IF \/ Unwrap(request.node_type) \notin DOMAIN request.before
          \/ request.cost <= 0
       THEN /\ request.returned.kind = "Err"
            /\ NodeTypeToCost = request.before
       ELSE /\ request.returned.kind = "Ok"
            /\ NodeTypeToCost =
                 [request.before EXCEPT ![Unwrap(request.node_type)] =
                    request.cost]
  /\ request.op = "get_node_type_cost" =>
       request.returned = MapGet(request.before, Unwrap(request.node_type))

\* a second node type was added, with another cost than the first has
C22_Witness ==
  /\ request.op = "add_node_type"
  /\ request.returned.kind = "Ok"
  /\ request.before # EmptyMap
  /\ \E t \in DOMAIN request.before : request.before[t] # request.cost

\* set_node_type_cost refused a cost of 0 for a node type of the archipelago
C22_RefusedCost ==
  /\ request.op = "set_node_type_cost"
  /\ Unwrap(request.node_type) \in DOMAIN request.before
  /\ request.cost <= 0
  /\ request.returned.kind = "Err"

\* C23: remove_node_type returns false and leaves the node types as they
\* were when the node type is not of the archipelago or an island gives it
\* to a polygon; otherwise it returns true and the node type has no cost
\* any more.
C23_RemoveNodeType ==
  request.op = "remove_node_type" =>
    IF \/ Unwrap(request.node_type) \notin DOMAIN request.before
       \/ Unwrap(request.node_type) \in UsedNodeTypes(nav_data)
    THEN /\ request.returned = FALSE
         /\ NodeTypeToCost = request.before
    ELSE /\ request.returned = TRUE
         /\ archipelago_get_node_type_cost(nav_data,
              Unwrap(request.node_type)) = None
         /\ NodeTypeToCost =
              Restrict(request.before,
                       DOMAIN request.before \ {Unwrap(request.node_type)})

\* a node type an island uses was not removed
C23_Witness ==
  /\ request.op = "remove_node_type"
  /\ Unwrap(request.node_type) \in DOMAIN request.before
  /\ Unwrap(request.node_type) \in UsedNodeTypes(nav_data)
  /\ request.returned = FALSE

\* a node type no island uses any more was removed
C23_Removed ==
  /\ request.op = "remove_node_type"
  /\ request.returned = TRUE
  /\ \E i \in DOMAIN nav_data.nav_data.islands :
       nav_data.nav_data.islands[i].nav_data # None

\* the boundary links stored under a node
LinksStoredUnder(nav, node) ==
  IF node \in DOMAIN nav.node_to_boundary_link_ids
  THEN {nav.boundary_links[id] : id \in nav.node_to_boundary_link_ids[node]}
  ELSE {}

\* C24: after every update, each boundary link stored under a node has a
\* reverse link, stored under its destination node, that leads back to the
\* node at the same cost.
C24_ReverseLinks ==
  request.updated =>
    \A s \in DOMAIN nav_data.nav_data.node_to_boundary_link_ids :
      \A link \in LinksStoredUnder(nav_data.nav_data, s) :
        \E reverse \in LinksStoredUnder(nav_data.nav_data, link.destination_node) :
          /\ reverse.destination_node = s
          /\ reverse.cost = link.cost

\* after an update there are links whose two halves differ in length
C24_Witness ==
  /\ request.updated
  /\ ~ request.islands_changed
  /\ \E s \in DOMAIN nav_data.nav_data.node_to_boundary_link_ids :
       \E link \in LinksStoredUnder(nav_data.nav_data, s) :
         /\ link.cost = 3
         /\ \E reverse \in LinksStoredUnder(nav_data.nav_data, link.destination_node) :
              reverse.destination_node = s

\* after an update, with no island changed since
Updated == request.updated /\ ~ request.islands_changed

\* two boundary edges of different islands that cover the same segment in
\* world space and run in opposite directions
EdgesCoincide(nav, a, b) ==
  /\ a.island_id # b.island_id
  /\ LET edge_a == WorldEdge(nav.islands[a.island_id], a.edge_ref)
         edge_b == WorldEdge(nav.islands[b.island_id], b.edge_ref)
     IN edge_a[1] = edge_b[2] /\ edge_a[2] = edge_b[1]

CoincidingEdges(nav) ==
  {pair \in BoundarySides(nav.islands) \X BoundarySides(nav.islands) :
     EdgesCoincide(nav, pair[1], pair[2])}

\* the islands are two unit squares, the second one unit along X from the
\* first (debug_test.rs:429-438)
TwoUnitSquares ==
  LET islands == nav_data.nav_data.islands IN
  /\ Cardinality(DOMAIN islands) = 2
  /\ \A i \in DOMAIN islands :
       /\ islands[i].nav_data # None
       /\ get_nav_mesh(islands[i]) = Some(UnitSquare)
  /\ {Unwrap(get_transform(islands[i])).translation : i \in DOMAIN islands}
       = {Vec3Zero, Twice(<<1, 0, 0>>)}

C25_NoLink ==
  /\ Updated
  /\ Cardinality({i \in DOMAIN nav_data.nav_data.islands :
                    nav_data.nav_data.islands[i].nav_data # None}) = 2
  /\ DOMAIN nav_data.nav_data.boundary_links = {}

\* after an update, with nothing changed since
Ticked == Updated /\ ~ request.agents_changed

\* the last node of an island segment and the first of the next are the two
\* ends of the boundary link between them, and the nodes of a corridor
\* follow each other through the edges of the path
PathFollowsLinks(path, nav) ==
  /\ \A s \in DOMAIN path.boundary_link_segments :
       LET link_segment == path.boundary_link_segments[s]
           before == path.island_segments[s]
           after == path.island_segments[s + 1]
       IN /\ link_segment.starting_node
               = NodeRef(before.island_id, before.corridor[Len(before.corridor)])
          /\ link_segment.boundary_link
               \in nav.node_to_boundary_link_ids[link_segment.starting_node]
          /\ nav.boundary_links[link_segment.boundary_link].destination_node
               = NodeRef(after.island_id, after.corridor[1])
  /\ \A s \in DOMAIN path.island_segments :
       LET segment == path.island_segments[s]
           polygons ==
             Unwrap(nav.islands[segment.island_id].nav_data).nav_mesh.polygons
       IN \A k \in DOMAIN segment.portal_edge_index :
            At(At(polygons, segment.corridor[k]).connectivity,
               segment.portal_edge_index[k])
              # None
            /\ Unwrap(At(At(polygons, segment.corridor[k]).connectivity,
                         segment.portal_edge_index[k])).polygon_index
                 = segment.corridor[k + 1]

\* C26: the funnel is never run on a path with an island, a node or a
\* boundary link that is not there.  After an update, every boundary link
\* joins nodes of islands as they are now, and an agent either has a path
\* whose islands, nodes and links all exist, from the node it is on to the
\* node of its target, or has no path and is in one of the states NoPath,
\* TargetNotOnNavMesh and AgentNotOnNavMesh.
C26_PathsStillValid ==
  LET nav == nav_data.nav_data IN
  /\ \A id \in DOMAIN nav_data.agents : nav_data.agents[id].state # "Panic"
  /\ Updated =>
       \A s \in DOMAIN nav.node_to_boundary_link_ids :
         /\ s \in Nodes(nav)
         /\ \A link \in LinksStoredUnder(nav, s) :
              link.destination_node \in Nodes(nav)
  /\ Ticked =>
       \A id \in DOMAIN nav_data.agents :
         LET a == nav_data.agents[id] IN
         IF a.current_path = None
         THEN a.state \in {"NoPath", "TargetNotOnNavMesh", "AgentNotOnNavMesh"}
         ELSE
           LET path == Unwrap(a.current_path) IN
           /\ a.state \in {"Moving", "ReachedTarget"}
           /\ PathIsStillValid(path, nav)
           /\ PathFollowsLinks(path, nav)
           /\ Some(NodeAtIndex(path, from_corridor_index(0, 0)))
                = LET sampled == nav_sample_point(nav, a.position, SnapDistance)
                  IN IF sampled = None THEN None ELSE Some(Unwrap(sampled)[2])
           /\ Some(NodeAtIndex(path, last_index(path)))
                = LET sampled == nav_sample_point(nav, Unwrap(a.current_target),
                                                  SnapDistance)
                  IN IF sampled = None THEN None ELSE Some(Unwrap(sampled)[2])


\* the last update met a path through a changed island and planned a path
\* through a boundary link
C26_Witness ==
  /\ Ticked
  /\ request.met_invalidated
  /\ \E id \in DOMAIN nav_data.agents :
       /\ nav_data.agents[id].current_path # None
       /\ Unwrap(nav_data.agents[id].current_path).boundary_link_segments
            # <<>>

\* the last update met a path through a changed island and found no path
C26_NoPathAfterChange ==
  /\ Ticked
  /\ request.met_invalidated
  /\ \E id \in DOMAIN nav_data.agents : nav_data.agents[id].state = "NoPath"


\* C27: an update that comes after an update, with no island and no agent
\* changed between the two, leaves the state and the desired velocity of
\* every agent as they were.
C27_SecondUpdate ==
  [][Ticked /\ Update =>
       \A id \in DOMAIN nav_data.agents :
         /\ id \in DOMAIN nav_data'.agents
         /\ nav_data'.agents[id].state = nav_data.agents[id].state
         /\ nav_data'.agents[id].current_desired_move
              = nav_data.agents[id].current_desired_move]_vars

\* an agent on its way through a boundary link after a second update
C27_Witness ==
  /\ request.again
  /\ Ticked
  /\ \E id \in DOMAIN nav_data.agents :
       /\ nav_data.agents[id].state = "Moving"
       /\ Unwrap(nav_data.agents[id].current_path).boundary_link_segments
            # <<>>

(***************************************************************************)
(* Part 7: the systems of bevy_landmass, lib.rs:150-191.                   *)
(*                                                                         *)
(* A frame runs add_agents_to_archipelagos and add_islands_to_archipelago  *)
(* (SyncExistence), then sync_agent_input_state and sync_island_nav_mesh   *)
(* (SyncValues), then update_archipelagos (Update).  between two frames    *)
(* entities are spawned and despawned and their components inserted,       *)
(* changed and removed.  In this part the variable request holds the       *)
(* world (the entities, their components, and how far the frame is) and    *)
(* nav_data the Archipelago component of each archipelago entity.          *)
(***************************************************************************)

\* the entities ever spawned, and the frames run
MaxEntities == 2
MaxFrames == 2

\* the archipelago entities; they are there from the start
ArchipelagoEntities == {"A1", "A2"}

\* where the GlobalTransform of an entity puts it: on the unit square
EntityPosition == <<3, 2, 3>>

\* lib.rs:209-222: Archipelago::new
BevyArchipelago ==
  [archipelago |-> NewArchipelago, islands |-> EmptyMap, agents |-> EmptyMap]

\* the sequences a HashMap can give the elements of a set in
RECURSIVE Orders(_)
Orders(set) ==
  IF set = {} THEN {<<>>}
  ELSE UNION {{<<x>> \o rest : rest \in Orders(set \ {x})} : x \in set}

\* the agent entities add_agents_to_archipelagos finds for an archipelago:
\* lib.rs:606-617
AgentsOf(world, archipelago_entity) ==
  {e \in DOMAIN world.entities :
     /\ world.entities[e].kind = "Agent"
     /\ world.entities[e].global_transform
     /\ world.entities[e].archipelago_ref = archipelago_entity}

\* agents that are not found stay in the archipelago of landmass
RetainAgents_KeepsRemoved(archipelago, new_agent_map, agent_entities) ==
  [archipelago EXCEPT
     !.agents = Restrict(@, DOMAIN @ \cap new_agent_map)]

\* lib.rs:628-636: the agents that are not found are removed
RECURSIVE RetainAgents(_, _, _)
RetainAgents(archipelago, new_agent_map, agent_entities) ==
  IF agent_entities = {} THEN archipelago
  ELSE
    LET agent_entity == CHOOSE e \in agent_entities : TRUE
        rest == agent_entities \ {agent_entity}
    IN IF agent_entity \in new_agent_map
       THEN RetainAgents(archipelago, new_agent_map, rest)
       ELSE RetainAgents(
              [archipelago EXCEPT
                 !.archipelago =
                   remove_agent(@, archipelago.agents[agent_entity]),
                 !.agents = Restrict(@, DOMAIN @ \ {agent_entity})],
              new_agent_map, rest)

\* lib.rs:638-646: the agents that are new are added, in the order given
RECURSIVE AddNewAgents(_, _, _)
AddNewAgents(archipelago, new_agents, world) ==
  IF new_agents = <<>> THEN archipelago
  ELSE AddNewAgents(
         [archipelago EXCEPT
            !.archipelago =
              add_agent(@, NewAgent(Vec3Zero,
                                    world.entities[Head(new_agents)].radius,
                                    world.entities[Head(new_agents)]
                                      .max_velocity)),
            !.agents =
              (Head(new_agents) :> NextAgentId(archipelago.archipelago)) @@ @],
         Tail(new_agents), world)

\* lib.rs:604-648, for one archipelago
add_agents_to_archipelago(archipelago, new_agent_map, order, world) ==
  AddNewAgents(
    RetainAgents(archipelago, new_agent_map, DOMAIN archipelago.agents),
    order, world)

\* the island entities add_islands_to_archipelago finds for an archipelago:
\* lib.rs:361-367
IslandsOf(world, archipelago_entity) ==
  {e \in DOMAIN world.entities :
     /\ world.entities[e].kind = "Island"
     /\ world.entities[e].archipelago_ref = archipelago_entity}

\* lib.rs:377-385
RECURSIVE RetainIslands(_, _, _)
RetainIslands(archipelago, new_islands, island_entities) ==
  IF island_entities = {} THEN archipelago
  ELSE
    LET island_entity == CHOOSE e \in island_entities : TRUE
        rest == island_entities \ {island_entity}
    IN IF island_entity \in new_islands
       THEN RetainIslands(archipelago, new_islands, rest)
       ELSE RetainIslands(
              [archipelago EXCEPT
                 !.archipelago =
                   remove_island(@, archipelago.islands[island_entity]),
                 !.islands = Restrict(@, DOMAIN @ \ {island_entity})],
              new_islands, rest)

\* lib.rs:387-390
RECURSIVE AddNewIslands(_, _)
AddNewIslands(archipelago, new_islands) ==
  IF new_islands = <<>> THEN archipelago
  ELSE AddNewIslands(
         [archipelago EXCEPT
            !.archipelago = add_island(@),
            !.islands =
              (Head(new_islands) :> NextIslandId(archipelago.archipelago))
                @@ @],
         Tail(new_islands))

\* lib.rs:356-392, for one archipelago
add_islands_to_archipelago(archipelago, new_islands, order) ==
  AddNewIslands(
    RetainIslands(archipelago, new_islands, DOMAIN archipelago.islands),
    order)

\* lib.rs:680-693: the inputs that are copied each time.  The entities of
\* the model have no Velocity and no TargetReachedCondition, and their
\* AgentTarget is the point they stand on.
CopyInputs(landmass_agent, agent_entity) ==
  [landmass_agent EXCEPT
     !.position = EntityPosition,
     !.radius = agent_entity.radius,
     !.max_velocity = agent_entity.max_velocity,
     !.current_target = Some(EntityPosition),
     !.target_reached_condition = [tag |-> "Distance", distance |-> None]]

\* An f32 cost is a number or NaN.  Every comparison with NaN is false.
F32(value) == [nan |-> FALSE, value |-> value]
NaN == [nan |-> TRUE, value |-> 0]
LessOrEqualZero(cost) == ~cost.nan /\ cost.value <= 0
GreaterThanZero(cost) == ~cost.nan /\ cost.value > 0

\* Agent::override_node_type_cost of landmass: the overrides after the call
\* and the value returned, false for a cost that is zero or less
override_node_type_cost(overrides, node_type, cost) ==
  IF LessOrEqualZero(cost)
  THEN [overrides |-> overrides, returned |-> FALSE]
  ELSE [overrides |-> (node_type :> cost) @@ overrides, returned |-> TRUE]

\* lib.rs:722-724: the assert fails for an entry of the component that
\* override_node_type_cost refuses
AssertFails(node_type_cost_overrides) ==
  \E node_type \in DOMAIN node_type_cost_overrides :
    ~override_node_type_cost(EmptyMap, node_type,
                             node_type_cost_overrides[node_type]).returned

\* lib.rs:713-726: overrides that are not in the component are removed,
\* then every entry of the component is set
CopyOverrides(landmass_agent, node_type_cost_overrides) ==
  [landmass_agent EXCEPT
     !.override_node_type_costs =
       Restrict(node_type_cost_overrides,
                {node_type \in DOMAIN node_type_cost_overrides :
                   override_node_type_cost(
                     @, node_type,
                     node_type_cost_overrides[node_type]).returned})
         @@ Restrict(@, DOMAIN @ \cap DOMAIN node_type_cost_overrides)]

\* lib.rs:695-726: the overrides are copied when the component is there and
\* is_changed() holds
SyncOverrides(landmass_agent, agent_entity) ==
  IF agent_entity.overrides = None
  THEN [landmass_agent EXCEPT !.override_node_type_costs = EmptyMap]
  ELSE IF ~agent_entity.overrides_changed THEN landmass_agent
  ELSE CopyOverrides(landmass_agent, Unwrap(agent_entity.overrides))

\* the agent entities sync_agent_input_state visits: lib.rs:652-668
QueriedAgents(world) ==
  {e \in DOMAIN world.entities :
     /\ world.entities[e].kind = "Agent"
     /\ world.entities[e].global_transform}

\* the expect of lib.rs:676-678 is met: every entity that is visited is in
\* the agents of its archipelago
AgentsAreRegistered(archipelagos, world) ==
  \A e \in QueriedAgents(world) :
    e \in DOMAIN archipelagos[world.entities[e].archipelago_ref].agents

\* lib.rs:652-728, where AgentsAreRegistered holds
sync_agent_input_state(archipelagos, world) ==
    [a \in DOMAIN archipelagos |->
       [archipelagos[a] EXCEPT
          !.archipelago.agents =
            [id \in DOMAIN @ |->
               IF \E e \in QueriedAgents(world) :
                    /\ world.entities[e].archipelago_ref = a
                    /\ archipelagos[a].agents[e] = id
               THEN LET e == CHOOSE e \in QueriedAgents(world) :
                             /\ world.entities[e].archipelago_ref = a
                             /\ archipelagos[a].agents[e] = id
                    IN SyncOverrides(CopyInputs(@[id], world.entities[e]),
                                     world.entities[e])
               ELSE @[id]]]]

\* Transform of a GlobalTransform at the origin: lib.rs:443-457
IslandTransform == [translation |-> Vec3Zero, rotation |-> 0]

\* the asset of a navigation mesh: NavMesh, lib.rs:343-351
NavMeshAsset(nav_mesh, type_index_to_node_type) ==
  [nav_mesh |-> nav_mesh, type_index_to_node_type |-> type_index_to_node_type]

SetNavMeshNeeded_Always(landmass_island, island_transform, island_nav_mesh) ==
  TRUE

\* lib.rs:459-476.  The Arc of a mesh is a value that is equal to another
\* exactly when the two point to the same allocation.
SetNavMeshNeeded(landmass_island, island_transform, island_nav_mesh) ==
  \/ get_transform(landmass_island) = None
  \/ Unwrap(get_transform(landmass_island)) # island_transform
  \/ Unwrap(get_nav_mesh(landmass_island)) # island_nav_mesh.nav_mesh
  \/ Unwrap(landmass_island.nav_data).type_index_to_node_type
       # island_nav_mesh.type_index_to_node_type

\* lib.rs:421-486, the body of the loop for an island that is in its
\* archipelago: handle is the Option of the Handle component, assets the
\* Assets of navigation meshes by handle, island_transform the Option of
\* the Transform of the GlobalTransform.  Gives the island and the method
\* that was called on it.
SyncOneIsland(landmass_island, handle, assets, island_transform) ==
  IF \/ handle = None
     \/ Unwrap(handle) \notin DOMAIN assets
     \/ island_transform = None
  THEN IF get_nav_mesh(landmass_island) # None
       THEN [island |-> clear_nav_mesh(landmass_island),
             called |-> "clear_nav_mesh"]
       ELSE [island |-> landmass_island, called |-> "nothing"]
  ELSE
    LET island_nav_mesh == assets[Unwrap(handle)] IN
    IF SetNavMeshNeeded(landmass_island, Unwrap(island_transform),
                        island_nav_mesh)
    THEN [island |-> set_nav_mesh(landmass_island, Unwrap(island_transform),
                                  island_nav_mesh.nav_mesh,
                                  island_nav_mesh.type_index_to_node_type),
          called |-> "set_nav_mesh"]
    ELSE [island |-> landmass_island, called |-> "nothing"]

\* lib.rs:395-487, for one island entity that is in its archipelago: its
\* mesh is loaded and has no node type
SyncIsland(landmass_island, island_entity) ==
  SyncOneIsland(
    landmass_island,
    IF island_entity.nav_mesh = None THEN None ELSE Some("handle"),
    IF island_entity.nav_mesh = None THEN EmptyMap
    ELSE "handle" :> NavMeshAsset(Unwrap(island_entity.nav_mesh), EmptyMap),
    IF island_entity.global_transform THEN Some(IslandTransform)
    ELSE None).island

\* lib.rs:395-487
sync_island_nav_mesh(archipelagos, world) ==
  [a \in DOMAIN archipelagos |->
     [archipelagos[a] EXCEPT
        !.archipelago =
          DeriveDirty([@ EXCEPT
            !.nav_data.islands =
              [id \in DOMAIN @ |->
                 IF \E e \in IslandsOf(world, a) :
                      /\ e \in DOMAIN archipelagos[a].islands
                      /\ archipelagos[a].islands[e] = id
                 THEN LET e == CHOOSE e \in IslandsOf(world, a) :
                               /\ e \in DOMAIN archipelagos[a].islands
                               /\ archipelagos[a].islands[e] = id
                      IN SyncIsland(@[id], world.entities[e])
                 ELSE @[id]]])]]

\* Archipelago::get_agent, lib.rs:269-274
get_agent(archipelago, entity) ==
  IF entity \notin DOMAIN archipelago.agents THEN None
  ELSE IF archipelago.agents[entity]
            \notin DOMAIN archipelago.archipelago.agents
       THEN None
       ELSE Some(archipelago.archipelago.agents[archipelago.agents[entity]])

\* the entities the two systems of the Output set visit, lib.rs:732-735
\* and 758-761: every entity with Agent, ArchipelagoRef and AgentState
\* (AgentDesiredVelocity), which an AgentBundle brings together
OutputAgents(world) ==
  {e \in DOMAIN world.entities : world.entities[e].kind = "Agent"}

\* those of them whose archipelago is there: lib.rs:741-744 and 771-774
OutputAgentsVisited(archipelagos, world) ==
  {e \in OutputAgents(world) :
     world.entities[e].archipelago_ref \in DOMAIN archipelagos}

\* the expect of lib.rs:746-750 and of 776-780 fails for an entity
ExpectFails(archipelagos, world) ==
  \E e \in OutputAgentsVisited(archipelagos, world) :
    get_agent(archipelagos[world.entities[e].archipelago_ref], e) = None

\* AgentState::from_landmass
AgentState_from_landmass(state) ==
  CASE state = "Idle" -> "Idle"
    [] state = "ReachedTarget" -> "ReachedTarget"
    [] state = "Moving" -> "Moving"
    [] state = "NoPath" -> "NoPath"
    [] state = "AgentNotOnNavMesh" -> "AgentNotOnNavMesh"
    [] state = "TargetNotOnNavMesh" -> "TargetNotOnNavMesh"

\* lib.rs:731-753: the entities after the system, or a panic
sync_agent_state(archipelagos, world) ==
  IF ExpectFails(archipelagos, world) THEN [kind |-> "Panic"]
  ELSE [kind |-> "Ok",
        entities |->
          [e \in DOMAIN world.entities |->
             IF e \in OutputAgentsVisited(archipelagos, world)
             THEN [world.entities[e] EXCEPT
                     !.state =
                       AgentState_from_landmass(
                         Unwrap(get_agent(
                           archipelagos[world.entities[e].archipelago_ref],
                           e)).state)]
             ELSE world.entities[e]]]

\* lib.rs:757-782
sync_desired_velocity(archipelagos, world) ==
  IF ExpectFails(archipelagos, world) THEN [kind |-> "Panic"]
  ELSE [kind |-> "Ok",
        entities |->
          [e \in DOMAIN world.entities |->
             IF e \in OutputAgentsVisited(archipelagos, world)
             THEN [world.entities[e] EXCEPT
                     !.desired_velocity =
                       Unwrap(get_agent(
                         archipelagos[world.entities[e].archipelago_ref],
                         e)).current_desired_move]
             ELSE world.entities[e]]]

\* every archipelago is updated, also when no time has passed
update_archipelagos_AlsoAtZero(archipelagos, delta_seconds) ==
  [a \in DOMAIN archipelagos |->
     [archipelagos[a] EXCEPT !.archipelago = update(@, delta_seconds)]]

\* lib.rs:325-335
update_archipelagos(archipelagos, delta_seconds) ==
  IF delta_seconds = 0 THEN archipelagos
  ELSE [a \in DOMAIN archipelagos |->
          [archipelagos[a] EXCEPT !.archipelago = update(@, delta_seconds)]]

(***************************************************************************)
(* The world that is run: archipelagos A1 and A2, and entities that are    *)
(* spawned as agents or as islands, moved from one archipelago to the      *)
(* other, stripped of their GlobalTransform and given it back, given       *)
(* node-type cost overrides, and despawned.                                *)
(***************************************************************************)
OverriddenNodeType == NodeTypeNames[1]
OverrideCosts == {F32(-1), F32(0), F32(2), NaN}

overrides_set_node_type_cost_AnyCost(overrides, node_type, cost) ==
  [overrides |-> (node_type :> cost) @@ overrides, returned |-> TRUE]

\* AgentNodeTypeCostOverrides::set_node_type_cost, lib.rs:504-510: the map
\* after the call and the value returned
overrides_set_node_type_cost(overrides, node_type, cost) ==
  IF LessOrEqualZero(cost)
  THEN [overrides |-> overrides, returned |-> FALSE]
  ELSE [overrides |-> (node_type :> cost) @@ overrides, returned |-> TRUE]

\* AgentNodeTypeCostOverrides::remove_override, lib.rs:514-516
remove_override(overrides, node_type) ==
  [overrides |-> Restrict(overrides, DOMAIN overrides \ {node_type}),
   returned |-> node_type \in DOMAIN overrides]

\* a call of one of the two, as query_result keeps it
OverrideCall(method, before, node_type, cost, outcome) ==
  [kind |-> method, before |-> before, node_type |-> node_type,
   cost |-> cost, after |-> outcome.overrides,
   returned |-> outcome.returned]

\* AgentBundle, lib.rs:98-118, with a TransformBundle as at lib_test.rs:46-62
AgentEntity(archipelago_ref) ==
  [kind |-> "Agent", archipelago_ref |-> archipelago_ref,
   global_transform |-> TRUE, radius |-> 1, max_velocity |-> 1,
   overrides |-> None, overrides_changed |-> FALSE, nav_mesh |-> None,
   state |-> "Idle", desired_velocity |-> Velocity(Vec3Zero, 0)]

\* IslandBundle, lib.rs:122-130, with a TransformBundle and a navigation
\* mesh that is loaded, as at lib_test.rs:32-44
IslandEntity(archipelago_ref) ==
  [kind |-> "Island", archipelago_ref |-> archipelago_ref,
   global_transform |-> TRUE, radius |-> 0, max_velocity |-> 0,
   overrides |-> None, overrides_changed |-> FALSE,
   nav_mesh |-> Some(UnitSquare),
   state |-> "Idle", desired_velocity |-> Velocity(Vec3Zero, 0)]

\* the world between two frames
BetweenFrames == "between frames"

BevyWorld(entities, spawned, frames, delta_seconds, next_system) ==
  [entities |-> entities, spawned |-> spawned, frames |-> frames,
   delta_seconds |-> delta_seconds, next_system |-> next_system]

\* a change of the entities between two frames
Changed(entities) ==
  [request EXCEPT !.entities = entities]

InitBevy ==
  /\ request = BevyWorld(EmptyMap, 0, 0, 0, BetweenFrames)
  /\ nav_data = [a \in ArchipelagoEntities |-> BevyArchipelago]
  /\ mesh = None
  /\ result = None
  /\ path_result = None
  /\ walk = None
  /\ agent = None
  /\ has_reached = None
  /\ query_result = NotRun

Spawn ==
  /\ request.next_system = BetweenFrames
  /\ request.spawned < MaxEntities
  /\ \E archipelago_ref \in ArchipelagoEntities,
        bundle \in {"Agent", "Island"} :
       request' =
         [request EXCEPT
            !.entities =
              ((request.spawned + 1) :>
                 (IF bundle = "Agent" THEN AgentEntity(archipelago_ref)
                  ELSE IslandEntity(archipelago_ref))) @@ @,
            !.spawned = @ + 1]
  /\ UNCHANGED <<mesh, result, nav_data, path_result, walk, agent,
                 has_reached>>
  /\ query_result' = NotRun

Despawn ==
  /\ request.next_system = BetweenFrames
  /\ \E e \in DOMAIN request.entities :
       request' = Changed(Restrict(request.entities,
                                   DOMAIN request.entities \ {e}))
  /\ UNCHANGED <<mesh, result, nav_data, path_result, walk, agent,
                 has_reached>>
  /\ query_result' = NotRun

SetArchipelagoRef ==
  /\ request.next_system = BetweenFrames
  /\ \E e \in DOMAIN request.entities,
        archipelago_ref \in ArchipelagoEntities :
       /\ request.entities[e].archipelago_ref # archipelago_ref
       /\ request' =
            [request EXCEPT !.entities[e].archipelago_ref = archipelago_ref]
  /\ UNCHANGED <<mesh, result, nav_data, path_result, walk, agent,
                 has_reached>>
  /\ query_result' = NotRun

RemoveGlobalTransform ==
  /\ request.next_system = BetweenFrames
  /\ \E e \in DOMAIN request.entities :
       /\ request.entities[e].global_transform
       /\ request' = [request EXCEPT !.entities[e].global_transform = FALSE]
  /\ UNCHANGED <<mesh, result, nav_data, path_result, walk, agent,
                 has_reached>>
  /\ query_result' = NotRun

InsertGlobalTransform ==
  /\ request.next_system = BetweenFrames
  /\ \E e \in DOMAIN request.entities :
       /\ ~request.entities[e].global_transform
       /\ request' = [request EXCEPT !.entities[e].global_transform = TRUE]
  /\ UNCHANGED <<mesh, result, nav_data, path_result, walk, agent,
                 has_reached>>
  /\ query_result' = NotRun

\* the component is inserted with no entry; an inserted component is changed
InsertOverrides ==
  /\ request.next_system = BetweenFrames
  /\ \E e \in DOMAIN request.entities :
       /\ request.entities[e].kind = "Agent"
       /\ request.entities[e].overrides = None
       /\ request' = [request EXCEPT
                        !.entities[e].overrides = Some(EmptyMap),
                        !.entities[e].overrides_changed = TRUE]
  /\ UNCHANGED <<mesh, result, nav_data, path_result, walk, agent,
                 has_reached>>
  /\ query_result' = NotRun

RemoveOverrides ==
  /\ request.next_system = BetweenFrames
  /\ \E e \in DOMAIN request.entities :
       /\ request.entities[e].overrides # None
       /\ request' = [request EXCEPT
                        !.entities[e].overrides = None,
                        !.entities[e].overrides_changed = FALSE]
  /\ UNCHANGED <<mesh, result, nav_data, path_result, walk, agent,
                 has_reached>>
  /\ query_result' = NotRun

\* a call through a mutable reference marks the component changed, whatever
\* the call returns
SetOverride ==
  /\ request.next_system = BetweenFrames
  /\ \E e \in DOMAIN request.entities, cost \in OverrideCosts :
       /\ request.entities[e].overrides # None
       /\ LET before == Unwrap(request.entities[e].overrides)
              outcome == overrides_set_node_type_cost(
                           before, OverriddenNodeType, cost)
          IN /\ request' =
                  [request EXCEPT
                     !.entities[e].overrides = Some(outcome.overrides),
                     !.entities[e].overrides_changed = TRUE]
             /\ query_result' =
                  OverrideCall("set_node_type_cost", before,
                               OverriddenNodeType, cost, outcome)
  /\ UNCHANGED <<mesh, result, nav_data, path_result, walk, agent,
                 has_reached>>

RemoveOverride ==
  /\ request.next_system = BetweenFrames
  /\ \E e \in DOMAIN request.entities :
       /\ request.entities[e].overrides # None
       /\ LET before == Unwrap(request.entities[e].overrides)
              outcome == remove_override(before, OverriddenNodeType)
          IN /\ request' =
                  [request EXCEPT
                     !.entities[e].overrides = Some(outcome.overrides),
                     !.entities[e].overrides_changed = TRUE]
             /\ query_result' =
                  OverrideCall("remove_override", before,
                               OverriddenNodeType, NaN, outcome)
  /\ UNCHANGED <<mesh, result, nav_data, path_result, walk, agent,
                 has_reached>>

\* the orders in which the new entities of each archipelago can be drained
DrainOrders(new_entities) ==
  {orders \in [DOMAIN new_entities ->
                 UNION {Orders(new_entities[a]) : a \in DOMAIN new_entities}] :
     \A a \in DOMAIN new_entities : orders[a] \in Orders(new_entities[a])}

\* a frame starts
AddAgentsToArchipelagos ==
  /\ request.next_system = BetweenFrames
  /\ request.frames < MaxFrames
  /\ \E orders \in DrainOrders([a \in DOMAIN nav_data |->
                                 AgentsOf(request, a)
                                   \ DOMAIN nav_data[a].agents]) :
       /\ nav_data' =
            [a \in DOMAIN nav_data |->
               add_agents_to_archipelago(nav_data[a], AgentsOf(request, a),
                                         orders[a], request)]
       /\ request' = [request EXCEPT
                        !.frames = @ + 1,
                        !.next_system = "add_islands_to_archipelago"]
  /\ UNCHANGED <<mesh, result, path_result, walk, agent, has_reached>>
  /\ query_result' = NotRun

AddIslandsToArchipelago ==
  /\ request.next_system = "add_islands_to_archipelago"
  /\ \E orders \in DrainOrders([a \in DOMAIN nav_data |->
                                 IslandsOf(request, a)
                                   \ DOMAIN nav_data[a].islands]) :
       nav_data' =
         [a \in DOMAIN nav_data |->
            add_islands_to_archipelago(nav_data[a], IslandsOf(request, a),
                                       orders[a])]
  /\ request' = [request EXCEPT !.next_system = "sync_agent_input_state"]
  /\ UNCHANGED <<mesh, result, path_result, walk, agent, has_reached,
                 query_result>>

\* the system has run: what was changed before it is not changed for its
\* next run
SyncAgentInputState ==
  /\ request.next_system = "sync_agent_input_state"
  /\ nav_data' = sync_agent_input_state(nav_data, request)
  /\ request' =
       [request EXCEPT
          !.entities = [e \in DOMAIN @ |->
                          [@[e] EXCEPT !.overrides_changed = FALSE]],
          !.next_system = "sync_island_nav_mesh"]
  /\ UNCHANGED <<mesh, result, path_result, walk, agent, has_reached,
                 query_result>>

SyncIslandNavMesh ==
  /\ request.next_system = "sync_island_nav_mesh"
  /\ nav_data' = sync_island_nav_mesh(nav_data, request)
  /\ request' = [request EXCEPT !.next_system = "update_archipelagos"]
  /\ UNCHANGED <<mesh, result, path_result, walk, agent, has_reached,
                 query_result>>

\* delta_seconds is the time that Time gave the frame
UpdateArchipelagos ==
  /\ request.next_system = "update_archipelagos"
  /\ \E delta_seconds \in {0, 1} :
       /\ nav_data' = update_archipelagos(nav_data, delta_seconds)
       /\ request' = [request EXCEPT
                        !.delta_seconds = delta_seconds,
                        !.next_system = "sync_agent_state"]
  /\ UNCHANGED <<mesh, result, path_result, walk, agent, has_reached,
                 query_result>>

\* the App has stopped on a panic of a system
AppPanicked == "panicked"

\* what a system of the Output set leaves: the entities it wrote to and
\* the system that follows, or the App stopped
AfterOutput(outcome, following) ==
  IF outcome.kind = "Panic"
  THEN [request EXCEPT !.next_system = AppPanicked]
  ELSE [request EXCEPT !.entities = outcome.entities,
                       !.next_system = following]

SyncAgentState ==
  /\ request.next_system = "sync_agent_state"
  /\ request' = AfterOutput(sync_agent_state(nav_data, request),
                            "sync_desired_velocity")
  /\ UNCHANGED <<mesh, result, nav_data, path_result, walk, agent,
                 has_reached, query_result>>

\* the frame ends
SyncDesiredVelocity ==
  /\ request.next_system = "sync_desired_velocity"
  /\ request' = AfterOutput(sync_desired_velocity(nav_data, request),
                            BetweenFrames)
  /\ UNCHANGED <<mesh, result, nav_data, path_result, walk, agent,
                 has_reached, query_result>>

\* the seven systems of a frame, in the order of the schedule
Frame ==
  \/ AddAgentsToArchipelagos
  \/ AddIslandsToArchipelago
  \/ SyncAgentInputState
  \/ SyncIslandNavMesh
  \/ UpdateArchipelagos
  \/ SyncAgentState
  \/ SyncDesiredVelocity

\* entities come and go
NextExistence ==
  \/ Spawn
  \/ Despawn
  \/ SetArchipelagoRef
  \/ RemoveGlobalTransform
  \/ InsertGlobalTransform
  \/ Frame

SpecExistence == InitBevy /\ [][NextExistence]_vars

\* an agent and an island that were spawned for archipelago A1; the
\* components of the agent change
InitInputs ==
  /\ request = BevyWorld((1 :> AgentEntity("A1")) @@ (2 :> IslandEntity("A1")),
                         2, 0, 0, BetweenFrames)
  /\ nav_data = [a \in ArchipelagoEntities |-> BevyArchipelago]
  /\ mesh = None
  /\ result = None
  /\ path_result = None
  /\ walk = None
  /\ agent = None
  /\ has_reached = None
  /\ query_result = NotRun

NextInputs ==
  \/ SetArchipelagoRef
  \/ RemoveGlobalTransform
  \/ InsertGlobalTransform
  \/ InsertOverrides
  \/ RemoveOverrides
  \/ SetOverride
  \/ RemoveOverride
  \/ Frame

SpecInputs == InitInputs /\ [][NextInputs]_vars


C28_Updated ==
  /\ request.next_system = BetweenFrames
  /\ request.delta_seconds = 1
  /\ \E a \in DOMAIN nav_data :
       /\ ~nav_data[a].archipelago.nav_data.dirty
       /\ \E id \in DOMAIN nav_data[a].archipelago.agents :
            nav_data[a].archipelago.agents[id].state = "ReachedTarget"


\* the SyncExistence systems of the frame have run
AfterSyncExistence ==
  request.next_system
    \in {"sync_agent_input_state", "sync_island_nav_mesh",
         "update_archipelagos"}

\* the map gives every key a value of its own, and the values are the ids
OneToOne(map, ids) ==
  /\ {map[e] : e \in DOMAIN map} = ids
  /\ \A e1, e2 \in DOMAIN map : map[e1] = map[e2] => e1 = e2

\* C29: after the SyncExistence systems, whatever was spawned, despawned
\* and changed before the frame: the agents map of every archipelago has
\* as keys the live agent entities with a GlobalTransform that refer to
\* it, the islands map the live island entities that refer to it, and the
\* archipelago of landmass has one agent and one island for each entry
\* and no other.
C29_ExistenceSynced ==
  AfterSyncExistence =>
    \A a \in DOMAIN nav_data :
      /\ DOMAIN nav_data[a].agents
           = {e \in DOMAIN request.entities :
                /\ request.entities[e].kind = "Agent"
                /\ request.entities[e].global_transform
                /\ request.entities[e].archipelago_ref = a}
      /\ DOMAIN nav_data[a].islands
           = {e \in DOMAIN request.entities :
                /\ request.entities[e].kind = "Island"
                /\ request.entities[e].archipelago_ref = a}
      /\ OneToOne(nav_data[a].agents, DOMAIN nav_data[a].archipelago.agents)
      /\ OneToOne(nav_data[a].islands,
                  DOMAIN nav_data[a].archipelago.nav_data.islands)

\* an archipelago that has lost an agent and kept another, after the
\* second frame's SyncExistence
C29_Witness ==
  /\ AfterSyncExistence
  /\ request.frames = 2
  /\ \E a \in DOMAIN nav_data :
       /\ nav_data[a].archipelago.agent_ids = 2
       /\ Cardinality(DOMAIN nav_data[a].agents) = 1

\* an island entity that went from an archipelago to the other: the first
\* has no island left, the second has one
C29_IslandMoved ==
  /\ AfterSyncExistence
  /\ \E a, b \in DOMAIN nav_data :
       /\ nav_data[a].archipelago.island_ids = 1
       /\ DOMAIN nav_data[a].archipelago.nav_data.islands = {}
       /\ nav_data[a].archipelago.nav_data.deleted_islands # {}
       /\ Cardinality(DOMAIN nav_data[b].islands) = 1

\* an agent entity that lost its GlobalTransform is out of its archipelago
C29_NoTransform ==
  /\ AfterSyncExistence
  /\ \E e \in DOMAIN request.entities :
       /\ request.entities[e].kind = "Agent"
       /\ ~request.entities[e].global_transform
       /\ nav_data[request.entities[e].archipelago_ref].archipelago.agent_ids
            > 0


\* sync_agent_input_state has run in the frame
AfterSyncAgentInput ==
  request.next_system \in {"sync_island_nav_mesh", "update_archipelagos"}

\* the agent of landmass that stands for an agent entity
Counterpart(e) ==
  LET archipelago == nav_data[request.entities[e].archipelago_ref]
  IN archipelago.archipelago.agents[archipelago.agents[e]]

\* the overrides an agent entity asks for
ComponentOverrides(e) ==
  IF request.entities[e].overrides = None THEN EmptyMap
  ELSE Unwrap(request.entities[e].overrides)

\* position, radius, max velocity, target and condition
InputsMatch(e) ==
  /\ Counterpart(e).position = EntityPosition
  /\ Counterpart(e).radius = request.entities[e].radius
  /\ Counterpart(e).max_velocity = request.entities[e].max_velocity
  /\ Counterpart(e).current_target = Some(EntityPosition)
  /\ Counterpart(e).target_reached_condition
       = [tag |-> "Distance", distance |-> None]

\* C30: after sync_agent_input_state, every agent entity that is in an
\* archipelago has the inputs of its agent of landmass equal to its own,
\* and the overrides of that agent equal to its AgentNodeTypeCostOverrides,
\* empty when it has none; whatever was inserted, changed and removed, and
\* however often the entity left an archipelago and entered one.
C30_InputsMatch ==
  AfterSyncAgentInput =>
    \A e \in QueriedAgents(request) :
      /\ InputsMatch(e)
      /\ Counterpart(e).override_node_type_costs = ComponentOverrides(e)

\* the entity went to the other archipelago with overrides that no one has
\* changed since: its new agent of landmass has none
C30_StaleOverrides ==
  /\ AfterSyncAgentInput
  /\ \E e \in QueriedAgents(request) :
       /\ ComponentOverrides(e) = (OverriddenNodeType :> F32(2))
       /\ Counterpart(e).override_node_type_costs = EmptyMap
       /\ InputsMatch(e)

\* overrides that were changed before the frame are copied
C30_OverridesCopied ==
  /\ AfterSyncAgentInput
  /\ \E e \in QueriedAgents(request) :
       /\ ComponentOverrides(e) = (OverriddenNodeType :> F32(2))
       /\ Counterpart(e).override_node_type_costs = ComponentOverrides(e)

\* the other inputs always match, and the overrides are those of the
\* component or none at all
C30_ExceptStaleOverrides ==
  /\ request.next_system = "sync_agent_input_state"
       => AgentsAreRegistered(nav_data, request)
  /\ AfterSyncAgentInput =>
       \A e \in QueriedAgents(request) :
         /\ InputsMatch(e)
         /\ Counterpart(e).override_node_type_costs
              \in {EmptyMap, ComponentOverrides(e)}
         /\ request.entities[e].overrides = None
              => Counterpart(e).override_node_type_costs = EmptyMap

(***************************************************************************)
(* C31: the methods of AgentNodeTypeCostOverrides.                         *)
(***************************************************************************)
SetCalled == query_result.kind = "set_node_type_cost"
RemoveCalled == query_result.kind = "remove_override"

\* set_node_type_cost returns false and leaves the map as it was when
\* cost <= 0, and otherwise stores the cost and returns true;
\* remove_override returns true exactly when the node type was overridden
ReturnValues ==
  /\ SetCalled /\ LessOrEqualZero(query_result.cost) =>
       /\ ~query_result.returned
       /\ query_result.after = query_result.before
  /\ SetCalled /\ ~LessOrEqualZero(query_result.cost) =>
       /\ query_result.returned
       /\ query_result.node_type \in DOMAIN query_result.after
       /\ query_result.after[query_result.node_type] = query_result.cost
       /\ Restrict(query_result.after,
                   DOMAIN query_result.after \ {query_result.node_type})
            = Restrict(query_result.before,
                       DOMAIN query_result.before \ {query_result.node_type})
  /\ RemoveCalled =>
       /\ query_result.returned
            = (query_result.node_type \in DOMAIN query_result.before)
       /\ query_result.node_type \notin DOMAIN query_result.after

\* every cost an AgentNodeTypeCostOverrides component stores is > 0
StoredCostsArePositive ==
  \A e \in DOMAIN request.entities :
    \A node_type \in DOMAIN ComponentOverrides(e) :
      GreaterThanZero(ComponentOverrides(e)[node_type])

\* the assert of sync_agent_input_state holds for every component
AssertNeverFails ==
  \A e \in DOMAIN request.entities : ~AssertFails(ComponentOverrides(e))

\* C31: set_node_type_cost(t, cost) returns false and leaves the map
\* unchanged when cost <= 0, and otherwise stores cost for t and returns
\* true; remove_override(t) returns true exactly when t was overridden;
\* after any sequence of these calls every stored override cost is > 0 and
\* the assert on override_node_type_cost never fails.
C31_StoredCostsArePositive ==
  /\ ReturnValues
  /\ StoredCostsArePositive
  /\ AssertNeverFails

\* set_node_type_cost was called with NaN: it returned true and the
\* component stores NaN, which is not > 0
C31_NaNStored ==
  /\ SetCalled
  /\ query_result.cost = NaN
  /\ query_result.returned
  /\ \E e \in DOMAIN request.entities :
       ComponentOverrides(e) = (OverriddenNodeType :> NaN)

\* the NaN goes on to the agent of landmass
C31_NaNCopied ==
  /\ AfterSyncAgentInput
  /\ \E e \in QueriedAgents(request) :
       Counterpart(e).override_node_type_costs = (OverriddenNodeType :> NaN)

\* what is left of the claim: the values returned are as stated, the assert
\* never fails, and no stored cost is zero or less
C31_ExceptNaN ==
  /\ ReturnValues
  /\ AssertNeverFails
  /\ \A e \in DOMAIN request.entities :
       \A node_type \in DOMAIN ComponentOverrides(e) :
         ~LessOrEqualZero(ComponentOverrides(e)[node_type])

\* calls that were refused, and a removal that found nothing
C31_Refused ==
  /\ SetCalled
  /\ query_result.cost = F32(-1)
  /\ ~query_result.returned
  /\ query_result.before = (OverriddenNodeType :> F32(2))

C31_RemovedNothing ==
  /\ RemoveCalled
  /\ ~query_result.returned
  /\ query_result.before = EmptyMap

(***************************************************************************)
(* C32: sync_island_nav_mesh over one island entity whose components and   *)
(* asset change.  Here nav_data holds the island of landmass, request the  *)
(* components of the entity and the assets, and query_result what the      *)
(* last run of the system did.                                             *)
(***************************************************************************)
Handles == {"h1", "h2"}

\* an Arc of the unit square: two Arcs of the same mesh differ by pointer
Arc(pointer) == [pointer |-> pointer, mesh |-> UnitSquare]

\* the assets a handle can load to
NavMeshAssets ==
  {NavMeshAsset(Arc(1), EmptyMap),
   NavMeshAsset(Arc(2), EmptyMap),
   NavMeshAsset(Arc(1), 0 :> OverriddenNodeType)}

MovedTransform == [translation |-> Twice(<<1, 0, 0>>), rotation |-> 0]
GlobalTransforms == {IslandTransform, MovedTransform}

IslandWorld(handle, assets, global_transform, changed) ==
  [handle |-> handle, assets |-> assets,
   global_transform |-> global_transform, changed |-> changed]

InitIslandSync ==
  /\ request = IslandWorld(None, EmptyMap, None, TRUE)
  /\ nav_data = Island_new
  /\ query_result = NotRun
  /\ mesh = None
  /\ result = None
  /\ path_result = None
  /\ walk = None
  /\ agent = None
  /\ has_reached = None

\* a component or an asset is changed
IslandInputChanges(world) ==
  /\ request' = [world EXCEPT !.changed = TRUE]
  /\ query_result' = NotRun
  /\ UNCHANGED <<mesh, result, nav_data, path_result, walk, agent,
                 has_reached>>

InsertHandle ==
  \E handle \in Handles :
    /\ request.handle # Some(handle)
    /\ IslandInputChanges([request EXCEPT !.handle = Some(handle)])

RemoveHandle ==
  /\ request.handle # None
  /\ IslandInputChanges([request EXCEPT !.handle = None])

\* Assets::insert: the asset is loaded, or replaced by another
InsertAsset ==
  \E handle \in Handles, asset \in NavMeshAssets :
    /\ handle \in DOMAIN request.assets => request.assets[handle] # asset
    /\ IslandInputChanges(
         [request EXCEPT !.assets = (handle :> asset) @@ @])

RemoveAsset ==
  \E handle \in DOMAIN request.assets :
    IslandInputChanges(
      [request EXCEPT !.assets = Restrict(@, DOMAIN @ \ {handle})])

MoveIsland ==
  \E transform \in GlobalTransforms :
    /\ request.global_transform # Some(transform)
    /\ IslandInputChanges(
         [request EXCEPT !.global_transform = Some(transform)])

RemoveIslandTransform ==
  /\ request.global_transform # None
  /\ IslandInputChanges([request EXCEPT !.global_transform = None])

\* what a run of the system did: the island before it, what it read, the
\* method it called, and whether anything was changed since the run before
IslandSynced(before, world, called) ==
  [kind |-> "sync_island_nav_mesh", before |-> before, handle |-> world.handle,
   assets |-> world.assets, global_transform |-> world.global_transform,
   called |-> called, changed |-> world.changed]

\* sync_island_nav_mesh runs
RunSyncIslandNavMesh ==
  /\ LET outcome == SyncOneIsland(nav_data, request.handle, request.assets,
                                  request.global_transform)
     IN /\ nav_data' = outcome.island
        /\ query_result' = IslandSynced(nav_data, request, outcome.called)
  /\ request' = [request EXCEPT !.changed = FALSE]
  /\ UNCHANGED <<mesh, result, path_result, walk, agent, has_reached>>

\* the update of the archipelago has rebuilt the boundary links and cleared
\* the dirty flag of the island
CleanIsland ==
  /\ nav_data.dirty
  /\ nav_data' = [nav_data EXCEPT !.dirty = FALSE]
  /\ UNCHANGED <<mesh, result, request, path_result, walk, agent,
                 has_reached, query_result>>

NextIslandSync ==
  \/ InsertHandle
  \/ RemoveHandle
  \/ InsertAsset
  \/ RemoveAsset
  \/ MoveIsland
  \/ RemoveIslandTransform
  \/ RunSyncIslandNavMesh
  \/ CleanIsland

SpecIslandSync == InitIslandSync /\ [][NextIslandSync]_vars

IslandWasSynced == query_result.kind = "sync_island_nav_mesh"

\* the handle, the asset or the transform was missing in the last run
InputMissing ==
  \/ query_result.handle = None
  \/ Unwrap(query_result.handle) \notin DOMAIN query_result.assets
  \/ query_result.global_transform = None

\* the island had no nav data, or another transform, another Arc or another
\* map of node types than the last run read
InputDiffers ==
  LET asset == query_result.assets[Unwrap(query_result.handle)]
      current == Unwrap(query_result.before.nav_data)
  IN \/ query_result.before.nav_data = None
     \/ current.transform # Unwrap(query_result.global_transform)
     \/ current.nav_mesh.pointer # asset.nav_mesh.pointer
     \/ current.type_index_to_node_type # asset.type_index_to_node_type

CalledOnlyWhenNeeded ==
  /\ IslandWasSynced /\ query_result.called = "set_nav_mesh" =>
       ~InputMissing /\ InputDiffers
  /\ IslandWasSynced /\ query_result.called = "clear_nav_mesh" =>
       InputMissing /\ query_result.before.nav_data # None

\* C32: sync_island_nav_mesh calls set_nav_mesh only when the island has no
\* nav data yet or the transform, the Arc of the mesh or the map of node
\* types differs, and clear_nav_mesh only when the handle, the asset or the
\* transform is missing and the island has a nav mesh; a run with its
\* inputs unchanged since the run before leaves the island as it is, dirty
\* flag included.
C32_SyncIsIdempotent ==
  [][RunSyncIslandNavMesh =>
       /\ CalledOnlyWhenNeeded'
       /\ ~request.changed =>
            /\ nav_data' = nav_data
            /\ query_result'.called = "nothing"]_vars

\* a second run, after the update has cleaned the island, on an island with
\* a mesh and on an island without one
C32_Witness ==
  /\ IslandWasSynced
  /\ ~query_result.changed
  /\ nav_data.nav_data # None
  /\ ~nav_data.dirty

C32_ClearedOnce ==
  /\ IslandWasSynced
  /\ ~query_result.changed
  /\ nav_data.nav_data = None
  /\ ~nav_data.dirty
  /\ request.handle # None
  /\ request.global_transform = None

\* set_nav_mesh was called for another Arc of the same mesh, and for
\* another map of node types
C32_OtherArc ==
  /\ IslandWasSynced
  /\ query_result.called = "set_nav_mesh"
  /\ query_result.before.nav_data # None
  /\ Unwrap(query_result.before.nav_data).nav_mesh.pointer
       # Unwrap(nav_data.nav_data).nav_mesh.pointer
  /\ Unwrap(query_result.before.nav_data).transform
       = Unwrap(nav_data.nav_data).transform

C32_OtherNodeTypes ==
  /\ IslandWasSynced
  /\ query_result.called = "set_nav_mesh"
  /\ query_result.before.nav_data # None
  /\ Unwrap(query_result.before.nav_data).nav_mesh
       = Unwrap(nav_data.nav_data).nav_mesh
  /\ Unwrap(query_result.before.nav_data).type_index_to_node_type
       # Unwrap(nav_data.nav_data).type_index_to_node_type

(***************************************************************************)
(* C33: the loops over find_next_point_in_straight_path end.  The walks    *)
(* are those of the zig-zag corridor and those of a corridor of two        *)
(* squares joined by two slanted quadrilaterals, in which a straight path  *)
(* turns at an end of every portal.                                        *)
(***************************************************************************)
SlantedVertices ==
  <<<<0, 0, 0>>, <<2, 0, 0>>, <<2, 0, 2>>, <<0, 0, 2>>,
    <<12, 0, 4>>, <<10, 0, 4>>, <<2, 0, 6>>, <<0, 0, 6>>,
    <<2, 0, 8>>, <<0, 0, 8>>>>

SlantedPolygons ==
  <<<<0, 1, 2, 3>>, <<3, 2, 4, 5>>, <<5, 4, 6, 7>>, <<7, 6, 8, 9>>>>

SlantedPath ==
  [corridor |-> [k \in 1 .. Len(SlantedPolygons) |-> NodeRef("a", k - 1)],
   portal_edge_index |-> <<2, 2, 2>>]

SlantedWorld ==
  [islands |->
     "a" :> [nav_data |->
               Some([transform |-> [translation |-> Vec3Zero, rotation |-> 0],
                     nav_mesh |-> [vertices |-> SlantedVertices,
                                   polygons |-> SlantedPolygons]])]]

\* the corners of a polygon and the middles of its sides and diagonals
SlantedPointsIn(polygon_index) ==
  LET polygon == At(SlantedPolygons, polygon_index) IN
  {Midpoint(At(SlantedVertices, polygon[i]), At(SlantedVertices, polygon[j])) :
     i \in DOMAIN polygon, j \in DOMAIN polygon}

SlantedWaypoints ==
  UNION {{<<i, p>> : p \in SlantedPointsIn(i)} :
           i \in Indices(SlantedPolygons)}

InitSlanted ==
  /\ mesh = Mesh(None, None, SlantedVertices, SlantedPolygons)
  /\ result = NotRun
  /\ nav_data = SlantedWorld
  /\ \E start \in SlantedWaypoints, end \in SlantedWaypoints :
       /\ start[1] <= end[1]
       /\ walk = [path |-> SlantedPath, start |-> start, end |-> end,
                  current |-> start, straight_path |-> <<>>,
                  panicked |-> FALSE]
  /\ request = None
  /\ path_result = NotRun
  /\ agent = None
  /\ has_reached = NotRun
  /\ query_result = NotRun

SpecWalks == (InitFunnel \/ InitSlanted) /\ [][NextFunnel]_vars

\* the portals between the start and the end of the walk
PortalsOfWalk == walk.end[1] - walk.start[1]

\* no further call is made: the loop of query.rs:127-137 has ended
WalkEnded == walk.current[1] = walk.end[1]

C33_WholeCorridor ==
  /\ IsZigZagWalk
  /\ WalkEnded
  /\ Len(walk.straight_path) = 5

(***************************************************************************)
(* C34: what one call of find_next_point_in_straight_path reads and        *)
(* returns.                                                                *)
(***************************************************************************)
\* the part of a path between two indices: its nodes start_index to
\* end_index and the portals between them, and nothing else to read
SubPath(path, start_index, end_index) ==
  [corridor |-> SubSeq(path.corridor, start_index + 1, end_index + 1),
   portal_edge_index |->
     SubSeq(path.portal_edge_index, start_index + 1, end_index)]

\* where call k of the walk started from
CallFrom(k) == IF k = 1 THEN walk.start ELSE walk.straight_path[k - 1]

\* the indices of the walk are as the claim takes them
WalkIndicesInRange ==
  /\ 0 <= walk.start[1]
  /\ walk.start[1] <= walk.end[1]
  /\ walk.end[1] <= Len(walk.path.corridor) - 1
  /\ Len(walk.path.portal_edge_index) = Len(walk.path.corridor) - 1

\* C34: for 0 <= start_index <= end_index <= len(corridor) - 1 and
\* len(portal_edge_index) = len(corridor) - 1, a call reads only portals
\* with an index from start_index to end_index - 1 and none out of bounds
\* (it returns the same on the path cut down to these portals), returns an
\* index from start_index to end_index, and returns end_point whenever it
\* returns end_index.
C34_CallStaysInRange ==
  WalkIndicesInRange =>
    /\ ~ walk.panicked
    /\ \A k \in DOMAIN walk.straight_path :
         LET from == CallFrom(k)
             returned == walk.straight_path[k]
         IN /\ from[1] <= returned[1]
            /\ returned[1] <= walk.end[1]
            /\ returned[1] = walk.end[1] => returned[2] = walk.end[2]
            /\ find_next_point_in_straight_path(
                 SubPath(walk.path, from[1], walk.end[1]), nav_data,
                 0, from[2], walk.end[1] - from[1], walk.end[2])
               = Some(<<returned[1] - from[1], returned[2]>>)

\* a call from inside the corridor to an end short of its last node, which
\* turned at a portal between the two
C34_Witness ==
  /\ WalkIndicesInRange
  /\ walk.start[1] > 0
  /\ walk.end[1] < Len(walk.path.corridor) - 1
  /\ Len(walk.straight_path) = 1
  /\ walk.straight_path[1][1] > walk.start[1]
  /\ walk.straight_path[1][1] < walk.end[1]

\* a call that returned the end index, with the end point
C34_ReachedEnd ==
  /\ WalkIndicesInRange
  /\ walk.start[1] < walk.end[1]
  /\ walk.end[1] < Len(walk.path.corridor) - 1
  /\ Len(walk.straight_path) >= 2
  /\ walk.straight_path[Len(walk.straight_path)] = walk.end

(***************************************************************************)
(* C35: the systems of the Output set.                                     *)
(***************************************************************************)
InOutput ==
  request.next_system \in {"sync_agent_state", "sync_desired_velocity"}

\* the agent entities that have no GlobalTransform
WithoutGlobalTransform ==
  {e \in OutputAgents(request) : ~request.entities[e].global_transform}

\* C35: in the Output set, which runs after SyncExistence in the same
\* frame, sync_agent_state and sync_desired_velocity find an agent of
\* landmass for every entity they visit, with or without a GlobalTransform:
\* their expect never fails.
C35_OutputFindsAgents ==
  /\ InOutput => ~ExpectFails(nav_data, request)
  /\ request.next_system # AppPanicked

\* sync_agent_state is about to visit an entity that has no GlobalTransform
\* and that add_agents_to_archipelagos has for this reason left out
C35_NotRegistered ==
  /\ request.next_system = "sync_agent_state"
  /\ \E e \in WithoutGlobalTransform :
       /\ request.entities[e].archipelago_ref \in DOMAIN nav_data
       /\ get_agent(nav_data[request.entities[e].archipelago_ref], e) = None

\* the App has stopped
C35_Panicked ==
  /\ request.next_system = AppPanicked
  /\ WithoutGlobalTransform # {}

\* the expect fails only for entities without a GlobalTransform: when every
\* agent entity has one, each is found, and the App never stops otherwise
C35_ExceptWithoutGlobalTransform ==
  /\ InOutput /\ WithoutGlobalTransform = {} => ~ExpectFails(nav_data, request)
  /\ InOutput /\ WithoutGlobalTransform # {} => ExpectFails(nav_data, request)
  /\ request.next_system = AppPanicked => WithoutGlobalTransform # {}

\* the output of a frame has reached an entity
C35_StateWritten ==
  /\ request.next_system = BetweenFrames
  /\ \E e \in OutputAgents(request) :
       request.entities[e].state = "ReachedTarget"

(***************************************************************************)
(* C36: the node types the islands use, and the costs of the archipelago.  *)
(***************************************************************************)
\* every node type that an island gives a polygon has a cost: the lookup
\* of pathfinding.rs:62-66 finds one.  This is so as long as set_nav_mesh
\* is handed node types that have a cost when it is called.
C36_UsedNodeTypesHaveCosts ==
  \A node_type \in UsedNodeTypes(nav_data) :
    get_node_type_cost(nav_data.nav_data, node_type) # None

\* an island uses a node type, and the call that would have removed the
\* node type returned false
C36_StillUsed ==
  /\ request.op = "remove_node_type"
  /\ request.returned = FALSE
  /\ Unwrap(request.node_type) \in UsedNodeTypes(nav_data)

(***************************************************************************)
(* C37: polygons connected to themselves.                                  *)
(***************************************************************************)
\* the polygons with a connectivity entry that names the polygon itself
SelfConnected ==
  {p \in Indices(result.polygons) :
     \E c \in BagToSet(result.connectivity[p]) : c.polygon_index = p}

\* C37: in every mesh that validate accepts, no connectivity entry of a
\* polygon p has polygon_index = p: each connected edge joins two distinct
\* polygons.
C37_NoSelfConnection ==
  Ok => SelfConnected = {}

\* the polygon 0, 1, 2, 1 over three vertices on one line is accepted and
\* is connected to itself across both of its edges
C37_SelfConnected ==
  /\ Ok
  /\ mesh.polygons = <<<<0, 1, 2, 1>>>>
  /\ mesh.vertices = LineVertices
  /\ result.connectivity[0]
       = SetToBag({[edge_index |-> 0, polygon_index |-> 0],
                   [edge_index |-> 1, polygon_index |-> 0],
                   [edge_index |-> 2, polygon_index |-> 0],
                   [edge_index |-> 3, polygon_index |-> 0]})
  /\ result.boundary_edges = EmptyBag

\* an accepted polygon is connected to itself exactly when it goes along one
\* of its edges twice, and the connected edges of two different polygons
\* join the two
C37_ExceptEdgesUsedTwice ==
  Ok =>
    /\ \A p \in Indices(result.polygons) :
         p \in SelfConnected
           <=> \E pe \in PolygonEdges(mesh) :
                 /\ pe[1] = p
                 /\ \E q \in Uses(mesh, pe) \ {pe} : q[1] = p
    /\ \A p \in Indices(result.polygons) :
         \A c \in BagToSet(result.connectivity[p]) :
           c.polygon_index # p =>
             \E q \in Uses(mesh, <<p, c.edge_index>>) : q[1] = c.polygon_index

\* a polygon with area that is connected to itself: a triangle with a spike
C37_TriangleWithSpike ==
  /\ Ok
  /\ mesh.polygons = <<<<0, 1, 0, 2, 3>>>>
  /\ SelfConnected = {0}
  /\ SignedArea2(mesh, At(mesh.polygons, 0)) > 0


(***************************************************************************)
(* C38                                                                     *)
(***************************************************************************)
\* the checks validate makes on polygon p, as <<p, step, kind, i>>: steps
\* number them in the order of nav_mesh.rs:84-157
ChecksOf(m, p) ==
  {<<p, 0, "NotEnoughVerticesInPolygon", 0>>,
   <<p, 1, "InvalidVertexIndexInPolygon", 0>>}
    \cup UNION {{<<p, 2 + 3 * i, "DegenerateEdgeInPolygon", i>>,
                 <<p, 3 + 3 * i, "DoublyConnectedEdge", i>>,
                 <<p, 4 + 3 * i, "ConcavePolygon", i>>} :
                i \in Indices(At(m.polygons, p))}

Checks(m) == UNION {ChecksOf(m, p) : p \in Indices(m.polygons)}

\* what each check rejects, read off the input mesh alone
CheckFails(m, check) ==
  LET polygon == At(m.polygons, check[1])
      i == check[4]
  IN CASE check[3] = "NotEnoughVerticesInPolygon" -> Len(polygon) < 3
       [] check[3] = "InvalidVertexIndexInPolygon" ->
            ~ IndicesInRange(m, polygon)
       [] check[3] = "DegenerateEdgeInPolygon" ->
            At(polygon, i) = At(polygon, (i + 1) % Len(polygon))
       [] check[3] = "DoublyConnectedEdge" -> IsThirdUse(m, <<check[1], i>>)
       [] check[3] = "ConcavePolygon" ->
            IndicesInRange(m, polygon) /\ TurnAt(m, polygon, i) < 0

FailingChecks(m) == {check \in Checks(m) : CheckFails(m, check)}

ComesFirst(c, d) == c[1] < d[1] \/ (c[1] = d[1] /\ c[2] <= d[2])

FirstFailing(m) ==
  CHOOSE c \in FailingChecks(m) : \A d \in FailingChecks(m) : ComesFirst(c, d)

\* the error a failing check returns
ErrorOf(m, check) ==
  IF check[3] = "DoublyConnectedEdge"
  THEN LET ends == EdgeVertices(m, <<check[1], check[4]>>)
       IN <<"DoublyConnectedEdge", Least(ends), Greatest(ends)>>
  ELSE <<check[3], check[1]>>

\* C38: validate returns the error of the first failing check, with the
\* polygons taken in index order and, within a polygon, the checks in the
\* order NotEnoughVerticesInPolygon, InvalidVertexIndexInPolygon, then for
\* each vertex position in order DegenerateEdgeInPolygon, DoublyConnectedEdge,
\* ConcavePolygon; it returns Ok when no check fails.
C38_FirstFailingCheck ==
  result.kind \in {"Ok", "Err"} =>
    IF FailingChecks(mesh) = {}
    THEN Ok
    ELSE /\ result.kind = "Err"
         /\ result.error = ErrorOf(mesh, FirstFailing(mesh))

\* the last edge of the second polygon is read a third time at a vertex with
\* a right turn, and a later polygon check fails too: DoublyConnectedEdge is
\* returned
C38_Witness ==
  /\ IsError("DoublyConnectedEdge")
  /\ Len(mesh.polygons) = 2
  /\ \E c, d \in FailingChecks(mesh) :
       /\ c = FirstFailing(mesh)
       /\ c[3] = "DoublyConnectedEdge"
       /\ d[3] = "ConcavePolygon"
       /\ d[1] = c[1]
       /\ d[4] = c[4]

\* a polygon with too few vertices and an index past the vertices
C38_TooSmallFirst ==
  /\ IsError("NotEnoughVerticesInPolygon")
  /\ ~ IndicesInRange(mesh, At(mesh.polygons, result.error[2]))

\* the first polygon is rejected and the second, with too few vertices, is
\* not looked at
C38_EarlierPolygonFirst ==
  /\ result.kind = "Err"
  /\ result.error[1] # "NotEnoughVerticesInPolygon"
  /\ \E c, d \in FailingChecks(mesh) :
       /\ c = FirstFailing(mesh)
       /\ c[1] = 0
       /\ d[1] = 1
       /\ d[3] = "NotEnoughVerticesInPolygon"


(***************************************************************************)
(* C39                                                                     *)
(***************************************************************************)
EmptyMesh == mesh.vertices = <<>> /\ mesh.polygons = <<>>

Validated == result # NotRun

\* C39: validate on a mesh with no vertices, no polygons and no mesh bounds
\* does not panic and returns Ok with mesh_bounds = (ZERO, ZERO), the region
\* bounds equal to them (unless supplied), and empty connectivity and
\* boundary_edges.
C39_EmptyMeshAccepted ==
  (Validated /\ EmptyMesh /\ mesh.mesh_bounds = None) =>
    /\ result.kind = "Ok"
    /\ result.mesh_bounds = <<Vec3Zero, Vec3Zero>>
    /\ mesh.region_bounds = None => result.region_bounds = result.mesh_bounds
    /\ DOMAIN result.connectivity = {}
    /\ result.boundary_edges = EmptyBag

\* validate panicked on the empty mesh without bounds
C39_Panicked ==
  /\ EmptyMesh
  /\ mesh.mesh_bounds = None
  /\ mesh.region_bounds = None
  /\ result.kind = "Panic"

\* validate panics on no other input than one without vertices and without
\* mesh bounds; an empty mesh with mesh bounds supplied is accepted with
\* these bounds, empty connectivity and empty boundary_edges
C39_ExceptWithoutBounds ==
  /\ result.kind = "Panic" <=>
       (Validated /\ mesh.vertices = <<>> /\ mesh.mesh_bounds = None)
  /\ (Validated /\ EmptyMesh /\ mesh.mesh_bounds # None) =>
       /\ result.kind = "Ok"
       /\ result.mesh_bounds = Unwrap(mesh.mesh_bounds)
       /\ DOMAIN result.connectivity = {}
       /\ result.boundary_edges = EmptyBag

\* the empty mesh with mesh bounds supplied was accepted
C39_AcceptedWithBounds ==
  /\ EmptyMesh
  /\ mesh.mesh_bounds = FakeBounds
  /\ result.kind = "Ok"

====
